---- MODULE Spec2Model ----
(***************************************************************************)
(* Command engine of LiftPlannerPro: CommandManager and CADCommandGroup    *)
(* (src/src/CommandManager.cpp, src/src/CommandManager.h).                 *)
(*                                                                         *)
(* The history engine is modelled as a state machine over the undo stack,  *)
(* the redo stack, the open group and the undo limit.  Concrete commands   *)
(* are abstract in the source (CADCommand is a pure interface), so the     *)
(* document they mutate is modelled as a reduced word over the commands'   *)
(* effects: execute() of command i appends i, undo() appends its inverse   *)
(* -i, and an effect cancels only against its own inverse when adjacent.   *)
(* The document therefore returns to an earlier value only if effects are  *)
(* reverted in strict reverse order.                                       *)
(*                                                                         *)
(* The dispatcher (executeCommand(const QString&)), the registry, the      *)
(* alias table and the macro recorder work on strings; a QString is the    *)
(* sequence of its characters, so that trimming, lower-casing and          *)
(* tokenizing are computed character by character as the source does.      *)
(* The private functions parseCommandLine and resolveAlias are also        *)
(* applied on their own, to inputs drawn from bounded sets; probe holds    *)
(* the input and the result of the last such application.                  *)
(*                                                                         *)
(* executeScriptText and playMacro call beginGroup, executeCommand for     *)
(* each line, and endGroup; each of these calls is one step, and task      *)
(* holds the lines still to come, so that a call that dies at a line is    *)
(* seen with the lines it never reached.  Nothing else is called while     *)
(* task is in progress.  Script files and macro files are not modelled.    *)
(***************************************************************************)
EXTENDS Integers, Sequences, FiniteSets, TLC

VARIABLES
    undoStack,          \* m_undoStack, bottom (oldest) first, top last
    redoStack,          \* m_redoStack, bottom first, top last
    currentGroup,       \* m_currentGroup: <<>> (null) or <<group>>
    undoLimit,          \* m_undoLimit
    commandInProgress,  \* m_commandInProgress
    lastCommand,        \* m_lastCommand
    doc,                \* the document the commands mutate
    crashed,            \* the process died (null dereference)
    tracking,           \* whether the document is followed (fixed by Init)
    events,             \* signals emitted by the last operation, in order
    calls,              \* CADCommand calls made by the last operation, in order
    ret,                \* return value of the last operation
    last,               \* the last operation and its outcome
    nextId,             \* identity of the next command to take effect
    run,                \* observer: the current streak of executes and undos
    grun,               \* observer: the current begin/execute/end group sequence
    commands,           \* m_commands: lower-cased name -> factory
    aliases,            \* m_aliases: lower-cased alias -> lower-cased target
    recording,          \* m_recording
    currentMacroName,   \* m_currentMacroName
    recordedCommands,   \* m_recordedCommands
    macros,             \* m_macros: macro name -> recorded lines
    commandEcho,        \* m_commandEcho
    sub,                \* observer: the last executeCommand(const QString&)
    submits,            \* number of calls of executeCommand(const QString&)
    probe,              \* observer: the last direct call of a private function
    task                \* the executeScriptText or playMacro in progress, or
                        \* what was observed of the one that returned last

\* The state of the dispatcher, the registry and the recorder.
dispatchVars == <<commands, aliases, recording, currentMacroName,
                  recordedCommands, macros, commandEcho>>

vars == <<undoStack, redoStack, currentGroup, undoLimit, commandInProgress,
          lastCommand, doc, crashed, tracking, events, calls, ret, last,
          nextId, run, grun, commands, aliases, recording, currentMacroName,
          recordedCommands, macros, commandEcho, sub, submits, probe, task>>

----------------------------------------------------------------------------
(* Bounds of the model *)

\* number of commands executed successfully in one behaviour
MaxCmds == 3
\* largest argument given to setUndoLimit
MaxLimit == 2
\* longest document word
MaxDoc == 3
\* number of commands executed successfully while the document is followed
MaxDocCmds == 2
\* longest recording buffer
MaxRecorded == 2
\* number of calls of executeCommand(const QString&) in one behaviour
MaxSubmits == 2
\* longest line given to parseCommandLine on its own (the examples apart)
MaxLineLen == 4

(* Program constants *)

\* m_undoLimit(100) in the constructor
DefaultUndoLimit == 100

GroupNames == {"G"}
MacroNames == {"m"}

\* A QString is the sequence of its characters.
CmdNames == { <<"l", "i", "n", "e">> }

----------------------------------------------------------------------------
(* Commands *)

\* An atomic command object (a concrete CADCommand) with identity id.
Atomic(id, nm, cu) ==
    [isGroup |-> FALSE, id |-> id, name |-> nm, canUndo |-> cu, commands |-> <<>>]

\* CADCommandGroup::CADCommandGroup(name): no members; canUndo() is inherited
\* from CADCommand and is true.  (m_executed is written by execute() and undo()
\* and read nowhere in the source; it is left out.)
NewGroup(nm) ==
    [isGroup |-> TRUE, id |-> 0, name |-> nm, canUndo |-> TRUE, commands |-> <<>>]

\* CADCommandGroup::addCommand
AddCommand(g, c) == [g EXCEPT !.commands = Append(@, c)]

\* CADCommandGroup::isEmpty
IsEmpty(g) == g.commands = <<>>

Reverse(s) == [i \in 1..Len(s) |-> s[Len(s) + 1 - i]]

\* One effect applied to the document word.
ApplyEffect(d, e) ==
    IF d # <<>> /\ d[Len(d)] = -e THEN SubSeq(d, 1, Len(d) - 1) ELSE Append(d, e)

\* CADCommand::execute of an atomic command
CmdExecute(d, c) == ApplyEffect(d, c.id)

\* CADCommand::undo of an atomic command
CmdUndo(d, c) == ApplyEffect(d, -c.id)

\* A faulty CADCommandGroup::undo that walks m_commands front to back.
UndoOrderForward(e) == IF e.isGroup THEN e.commands ELSE <<e>>

\* The commands a traversal calls, in call order: CADCommandGroup::undo walks
\* m_commands from rbegin to rend; an atomic command is called itself.
UndoOrder(e) == IF e.isGroup THEN Reverse(e.commands) ELSE <<e>>

\* A faulty redo traversal that walks a group's members back to front.
RedoOrderReversed(e) == IF e.isGroup THEN Reverse(e.commands) ELSE <<e>>

\* CADCommandGroup::redo calls execute(), which walks m_commands front to back;
\* CADCommand::redo of an atomic command calls its execute().
RedoOrder(e) == IF e.isGroup THEN e.commands ELSE <<e>>

\* f = 0: no call throws; f = j > 0: the j-th call of the traversal throws,
\* so j - 1 calls completed.
Completed(seq, f) == IF f = 0 THEN Len(seq) ELSE f - 1

RECURSIVE UndoPrefix(_, _, _)
UndoPrefix(d, seq, n) ==
    IF n = 0 THEN d ELSE CmdUndo(UndoPrefix(d, seq, n - 1), seq[n])

RECURSIVE ExecPrefix(_, _, _)
ExecPrefix(d, seq, n) ==
    IF n = 0 THEN d ELSE CmdExecute(ExecPrefix(d, seq, n - 1), seq[n])

\* The calls a traversal makes, the throwing one included.
CallLog(op, seq, f) ==
    [i \in 1..(IF f = 0 THEN Len(seq) ELSE f) |->
        [op |-> op, id |-> seq[i].id, ok |-> (f = 0 \/ i < f)]]

\* A faulty undo of an entry that, when a call throws, puts the document back
\* as it was before the first call.
EntryUndoRolledBack(d, e, f) ==
    IF f = 0 THEN UndoPrefix(d, UndoOrder(e), Len(UndoOrder(e))) ELSE d

\* The document after command->undo() on a stack entry (a throwing call
\* leaves the document as the calls before it left it).
EntryUndo(d, e, f) == UndoPrefix(d, UndoOrder(e), Completed(UndoOrder(e), f))

\* The document after command->redo() on a stack entry.
EntryRedo(d, e, f) == ExecPrefix(d, RedoOrder(e), Completed(RedoOrder(e), f))

----------------------------------------------------------------------------
(* Stacks and signals *)

\* A faulty top(): the oldest entry instead of the newest.
StackTopOldest(s) == s[1]

\* QStack::top
StackTop(s) == s[Len(s)]

\* A faulty pop() that removes nothing.
StackPopNothing(s) == s

\* QStack::pop
StackPop(s) == SubSeq(s, 1, Len(s) - 1)

\* QStack::push
StackPush(s, c) == Append(s, c)

BoolStr(b) == IF b THEN "true" ELSE "false"

Ev(nm, arg) == [name |-> nm, arg |-> arg, error |-> ""]

Emitted(nm) == \E i \in 1..Len(events) : events[i].name = nm

\* CommandManager::canUndo / canRedo on given stacks
CanUndo(us) == us # <<>>
CanRedo(rs) == rs # <<>>

\* CommandManager::updateUndoRedoState
UpdateUndoRedoState(us, rs) ==
    << Ev("undoAvailabilityChanged", BoolStr(CanUndo(us))),
       Ev("redoAvailabilityChanged", BoolStr(CanRedo(rs))) >>

\* A faulty trimHistory: removeLast, evicting the newest entries.
RECURSIVE TrimHistoryNewest(_, _)
TrimHistoryNewest(us, limit) ==
    IF Len(us) > limit THEN TrimHistoryNewest(SubSeq(us, 1, Len(us) - 1), limit)
    ELSE us

\* CommandManager::trimHistory: removeFirst while the stack is over the limit
RECURSIVE TrimHistory(_, _)
TrimHistory(us, limit) ==
    IF Len(us) > limit THEN TrimHistory(Tail(us), limit) ELSE us

\* CommandManager::addToHistory, the undo stack it leaves
AddToHistoryUndo(us, c, limit) ==
    IF ~c.canUndo THEN us ELSE TrimHistory(StackPush(us, c), limit)

\* A faulty addToHistory that clears the redo stack before it asks canUndo().
AddToHistoryRedoAlwaysCleared(rs, c) == <<>>

\* A faulty addToHistory that forgets m_redoStack.clear().
AddToHistoryRedoKept(rs, c) == rs

\* CommandManager::addToHistory, the redo stack it leaves
AddToHistoryRedo(rs, c) ==
    IF ~c.canUndo THEN rs ELSE <<>>

\* CommandManager::addToHistory, the signals it emits
AddToHistoryEvents(us, c, limit) ==
    IF ~c.canUndo THEN <<>>
    ELSE UpdateUndoRedoState(AddToHistoryUndo(us, c, limit), <<>>)
         \o << Ev("historyChanged", "") >>

\* A faulty endGroup that pushes the open group even when it has no members.
EndGroupUndoAlways(us, cg, limit) ==
    IF cg # <<>> THEN AddToHistoryUndo(us, cg[1], limit) ELSE us

\* CommandManager::endGroup, the undo stack it leaves
EndGroupUndo(us, cg, limit) ==
    IF cg # <<>> /\ ~IsEmpty(cg[1]) THEN AddToHistoryUndo(us, cg[1], limit) ELSE us

\* A faulty endGroup that pushes the group without clearing the redo stack.
EndGroupRedoKept(rs, cg) == rs

\* CommandManager::endGroup, the redo stack it leaves
EndGroupRedo(rs, cg) ==
    IF cg # <<>> /\ ~IsEmpty(cg[1]) THEN AddToHistoryRedo(rs, cg[1]) ELSE rs

\* A faulty endGroup that emits groupingChanged(false) with no group open.
EndGroupEventsAlways(us, cg, limit) ==
    (IF cg # <<>> /\ ~IsEmpty(cg[1]) THEN AddToHistoryEvents(us, cg[1], limit)
     ELSE <<>>)
    \o << Ev("groupingChanged", "false") >>

\* CommandManager::endGroup, the signals it emits
EndGroupEvents(us, cg, limit) ==
    IF cg = <<>> THEN <<>>
    ELSE (IF ~IsEmpty(cg[1]) THEN AddToHistoryEvents(us, cg[1], limit) ELSE <<>>)
         \o << Ev("groupingChanged", "false") >>

\* A faulty catch branch of undo() that does not push the command back.
UndoRestoreDropped(rest, c) == rest

\* CommandManager::undo, catch branch: the popped command goes back on top
UndoRestore(rest, c) == StackPush(rest, c)

\* A faulty catch branch of redo() that does not push the command back.
RedoRestoreDropped(rest, c) == rest

\* CommandManager::redo, catch branch: the popped command goes back on top
RedoRestore(rest, c) == StackPush(rest, c)

\* qMax(1, limit) in setUndoLimit
ClampLimit(n) == IF n < 1 THEN 1 ELSE n

----------------------------------------------------------------------------
(* Strings, the tokenizer, the registry and the alias table *)

UpperChars == << "A", "B", "C", "D", "E", "F", "G", "H", "I", "J", "K", "L", "M",
                 "N", "O", "P", "Q", "R", "S", "T", "U", "V", "W", "X", "Y", "Z" >>
LowerChars == << "a", "b", "c", "d", "e", "f", "g", "h", "i", "j", "k", "l", "m",
                 "n", "o", "p", "q", "r", "s", "t", "u", "v", "w", "x", "y", "z" >>

\* QChar::toLower
ToLowerChar(c) ==
    IF \E i \in 1..Len(UpperChars) : UpperChars[i] = c
    THEN LowerChars[CHOOSE i \in 1..Len(UpperChars) : UpperChars[i] = c]
    ELSE c

\* QString::toLower
ToLower(str) == [i \in 1..Len(str) |-> ToLowerChar(str[i])]

\* QChar::isSpace
IsSpace(c) == c \in {" ", "\t", "\n"}

RECURSIVE TrimLeft(_)
TrimLeft(str) ==
    IF str # <<>> /\ IsSpace(str[1]) THEN TrimLeft(Tail(str)) ELSE str

RECURSIVE TrimRight(_)
TrimRight(str) ==
    IF str # <<>> /\ IsSpace(str[Len(str)])
    THEN TrimRight(SubSeq(str, 1, Len(str) - 1))
    ELSE str

\* QString::trimmed
Trimmed(str) == TrimRight(TrimLeft(str))

\* A faulty loop in which whitespace ends a token inside quotes as well.
RECURSIVE ParseFromSplitsInQuotes(_, _, _, _, _)
ParseFromSplitsInQuotes(str, i, parts, current, inQuotes) ==
    IF i > Len(str)
    THEN (IF current # <<>> THEN Append(parts, current) ELSE parts)
    ELSE IF str[i] = "\""
         THEN ParseFromSplitsInQuotes(str, i + 1, parts, current, ~inQuotes)
    ELSE IF IsSpace(str[i])
         THEN ParseFromSplitsInQuotes(str, i + 1,
                        IF current # <<>> THEN Append(parts, current) ELSE parts,
                        <<>>, inQuotes)
    ELSE ParseFromSplitsInQuotes(str, i + 1, parts, Append(current, str[i]),
                                 inQuotes)

\* CommandManager::parseCommandLine, the loop from character i on
RECURSIVE ParseFrom(_, _, _, _, _)
ParseFrom(str, i, parts, current, inQuotes) ==
    IF i > Len(str)
    THEN (IF current # <<>> THEN Append(parts, current) ELSE parts)
    ELSE IF str[i] = "\""
         THEN ParseFrom(str, i + 1, parts, current, ~inQuotes)
    ELSE IF IsSpace(str[i]) /\ ~inQuotes
         THEN ParseFrom(str, i + 1,
                        IF current # <<>> THEN Append(parts, current) ELSE parts,
                        <<>>, inQuotes)
    ELSE ParseFrom(str, i + 1, parts, Append(current, str[i]), inQuotes)

\* CommandManager::parseCommandLine
ParseCommandLine(str) == ParseFrom(str, 1, <<>>, <<>>, FALSE)

\* QHash insert / operator[] assignment
Put(f, k, v) == [x \in (DOMAIN f) \cup {k} |-> IF x = k THEN v ELSE f[x]]

\* QHash::remove
Remove(f, k) == [x \in (DOMAIN f) \ {k} |-> f[x]]

\* A faulty resolveAlias that looks the name up as it was given.
ResolveAliasCaseSensitive(al, command) ==
    IF command \in DOMAIN al THEN al[command] ELSE ToLower(command)

\* A faulty resolveAlias that resolves what it found once more.
ResolveAliasTwice(al, command) ==
    LET once == IF ToLower(command) \in DOMAIN al THEN al[ToLower(command)]
                ELSE ToLower(command)
    IN IF once \in DOMAIN al THEN al[once] ELSE once

\* CommandManager::resolveAlias
ResolveAlias(al, command) ==
    IF ToLower(command) \in DOMAIN al THEN al[ToLower(command)]
    ELSE ToLower(command)

\* The names executeCommand(const QString&) handles itself
KwU == << "u" >>
KwUndo == << "u", "n", "d", "o" >>
KwRedo == << "r", "e", "d", "o" >>
KwRepeat == << "r", "e", "p", "e", "a", "t" >>

\* Names of the built-in commands and aliases
NmLine == << "l", "i", "n", "e" >>
NmCircle == << "c", "i", "r", "c", "l", "e" >>
NmRectangle == << "r", "e", "c", "t", "a", "n", "g", "l", "e" >>
NmZoom == << "z", "o", "o", "m" >>
NmPan == << "p", "a", "n" >>

\* A factory: what the registered closure does when invoked.  "null": it
\* returns nullptr; "throws": it throws a std::exception; "ok": it returns a
\* command whose name() is name (its canUndo() is decided when it is built).
Factory(kind, nm) == [kind |-> kind, name |-> nm]

\* The factories of the built-in commands return nullptr.
NullFactory == Factory("null", <<>>)

\* initializeBuiltinCommands, the commands
BuiltinCommands ==
    Put(Put(Put(<<>>, NmLine, NullFactory), NmCircle, NullFactory),
        NmRectangle, NullFactory)

\* initializeBuiltinCommands, the aliases
BuiltinAliases ==
    Put(Put(Put(Put(Put(Put(Put(<<>>,
        << "l" >>, NmLine),
        << "c" >>, NmCircle),
        << "r", "e", "c" >>, NmRectangle),
        << "r", "e", "c", "t" >>, NmRectangle),
        << "u" >>, KwUndo),
        << "z" >>, NmZoom),
        << "p" >>, NmPan)

\* CommandManager::createCommand: the factory the name finds, NullFactory's
\* outcome when it finds none.
Registered(cmds, nm) == ToLower(nm) \in DOMAIN cmds

\* A faulty createCommand that knows the built-in commands only.
CreateCommandBuiltinOnly(cmds, nm) ==
    IF ToLower(nm) \in DOMAIN BuiltinCommands THEN BuiltinCommands[ToLower(nm)]
    ELSE NullFactory

CreateCommand(cmds, nm) ==
    IF Registered(cmds, nm) THEN cmds[ToLower(nm)] ELSE NullFactory

----------------------------------------------------------------------------
(* The observer of execute/undo streaks *)

RunReset == [docs |-> <<>>, cmds |-> <<>>, undos |-> <<>>]

\* A successful top-level execute of undoable command id on document d
\* extends the streak, or starts a new one when undos have intervened.
RunExecute(r, d, id) ==
    IF r.undos = <<>>
    THEN [docs |-> Append(r.docs, d), cmds |-> Append(r.cmds, id), undos |-> <<>>]
    ELSE [docs |-> <<d>>, cmds |-> <<id>>, undos |-> <<>>]

\* A successful undo that reverted the entry with identity id.
RunUndo(r, id) ==
    IF Len(r.undos) < Len(r.cmds) THEN [r EXCEPT !.undos = Append(@, id)]
    ELSE RunReset

\* No group sequence is being observed.
GrunReset ==
    [phase |-> "none", base |-> <<>>, begun |-> <<>>, ids |-> <<>>, closed |-> <<>>]

\* beginGroup was called with undo stack base and left undo stack begun.
GrunBegin(base, begun) ==
    [phase |-> "open", base |-> base, begun |-> begun, ids |-> <<>>, closed |-> <<>>]

\* A command was executed successfully into the open group.
GrunExecute(g, id) ==
    IF g.phase = "open" THEN [g EXCEPT !.ids = Append(@, id)] ELSE GrunReset

\* endGroup was called and left undo stack us.
GrunEnd(g, us) ==
    IF g.phase = "open" THEN [g EXCEPT !.phase = "closed", !.closed = us]
    ELSE GrunReset

\* undo() was called right after the sequence.
GrunUndo(g) ==
    IF g.phase = "closed" THEN [g EXCEPT !.phase = "undone"] ELSE GrunReset

\* The last operation: its name, its outcome, its integer argument, whether
\* the command it executed answers canUndo() with true, and the sizes of the
\* two stacks when it was called.
Op(op, outcome, n, undoable) ==
    [op |-> op, outcome |-> outcome, n |-> n, undoable |-> undoable,
     undoLen |-> Len(undoStack), redoLen |-> Len(redoStack)]

\* No executeCommand(const QString&) is being observed.  found is what
\* createCommand met: "none" when it was not called, "absent" when the name is
\* not in the registry, otherwise what the factory did.
NoSubmit ==
    [route |-> "none", line |-> <<>>, name |-> <<>>, args |-> <<>>,
     echo |-> <<>>, nested |-> FALSE, found |-> "none", made |-> <<>>]

\* No private function has been called directly.
NoProbe == [fn |-> "none", input |-> <<>>, output |-> <<>>]

\* No executeScriptText or playMacro is in progress or was the last operation.
\* kind is "script" or "macro" while one is in progress; lines are the lines
\* still to come; success is the flag executeScriptText returns; was, sent,
\* failed, opened and closed are what is observed of it: which of the two it
\* was once it has returned, the lines it gave to executeCommand and those
\* for which executeCommand returned false, and the undo stack as its
\* beginGroup and its endGroup left it.
NoTask ==
    [kind |-> "none", lines |-> <<>>, success |-> TRUE, was |-> "none",
     sent |-> <<>>, failed |-> <<>>, opened |-> <<>>, closed |-> <<>>]

\* An operation that is not executeCommand(const QString&) and touches neither
\* the registry, the alias table nor the recorder.
Quiet ==
    /\ sub' = NoSubmit
    /\ probe' = NoProbe
    /\ task' = NoTask
    /\ UNCHANGED dispatchVars
    /\ UNCHANGED submits

----------------------------------------------------------------------------
(* CommandManager *)

\* CommandManager::CommandManager: empty stacks, no group, limit 100
InitEngine ==
    /\ undoStack = <<>>
    /\ redoStack = <<>>
    /\ currentGroup = <<>>
    /\ undoLimit = DefaultUndoLimit
    /\ commandInProgress = FALSE
    /\ lastCommand = <<>>
    /\ doc = <<>>
    /\ crashed = FALSE
    /\ events = <<>>
    /\ calls = <<>>
    /\ ret = "none"
    /\ last = Op("init", "ok", 0, TRUE)
    /\ nextId = 1
    /\ run = RunReset
    /\ grun = GrunReset
    /\ commands = BuiltinCommands
    /\ aliases = BuiltinAliases
    /\ recording = FALSE
    /\ currentMacroName = ""
    /\ recordedCommands = <<>>
    /\ macros = <<>>
    /\ commandEcho = TRUE
    /\ probe = NoProbe
    /\ task = NoTask
    /\ sub = NoSubmit
    /\ submits = 0

\* The engine together with the document its commands mutate.
Init == InitEngine /\ tracking = TRUE

\* The engine alone: the document is not followed, and no bound on the
\* document restricts the engine.
InitHistory == InitEngine /\ tracking = FALSE

\* The document after an operation that makes it d.
Track(d) ==
    /\ tracking => Len(d) <= MaxDoc
    /\ doc' = IF tracking THEN d ELSE doc

\* A faulty catch branch of executeCommand that leaves m_commandInProgress set.
ExecuteFailedFlagLeft(c, r) ==
    /\ commandInProgress' = TRUE
    /\ events' = << [name |-> "commandFailed", arg |-> c.name,
                     error |-> "Command execution failed"] >>
    /\ calls' = << [op |-> "execute", id |-> c.id, ok |-> FALSE] >>
    /\ ret' = r
    /\ last' = Op("execute", "failed", 0, TRUE)
    /\ run' = RunReset
    /\ grun' = GrunReset
    /\ UNCHANGED <<undoStack, redoStack, currentGroup, undoLimit, lastCommand,
                   doc, crashed, tracking, nextId>>

\* executeCommand(std::unique_ptr<CADCommand>), catch branch: command->execute()
\* threw; nothing was added anywhere and the command object is destroyed.  The
\* caller sees r returned.
ExecuteFailed(c, r) ==
    /\ commandInProgress' = FALSE
    /\ events' = << [name |-> "commandFailed", arg |-> c.name,
                     error |-> "Command execution failed"] >>
    /\ calls' = << [op |-> "execute", id |-> c.id, ok |-> FALSE] >>
    /\ ret' = r
    /\ last' = Op("execute", "failed", 0, TRUE)
    /\ run' = RunReset
    /\ grun' = GrunReset
    /\ UNCHANGED <<undoStack, redoStack, currentGroup, undoLimit, lastCommand,
                   doc, crashed, tracking, nextId>>

\* executeCommand, line 167: m_lastCommand = command->name() is evaluated after
\* command was moved from (into addCommand or addToHistory), so it dereferences
\* a null unique_ptr.  The process dies there, or the read yields some string
\* and the function goes on to return true.
ExecuteTail(c, dies, garbage) ==
    IF dies
    THEN /\ crashed' = TRUE
         /\ ret' = "none"
         /\ last' = Op("execute", "crashed", 0, c.canUndo)
         /\ UNCHANGED lastCommand
    ELSE /\ crashed' = FALSE
         /\ lastCommand' = garbage
         /\ ret' = "true"
         /\ last' = Op("execute", "ok", 0, c.canUndo)

\* executeCommand(std::unique_ptr<CADCommand>), try branch
ExecuteSucceeded(c, dies, garbage) ==
    /\ Track(CmdExecute(doc, c))
    /\ calls' = << [op |-> "execute", id |-> c.id, ok |-> TRUE] >>
    /\ commandInProgress' = FALSE
    /\ IF currentGroup # <<>>
       THEN /\ currentGroup' = << AddCommand(currentGroup[1], c) >>
            /\ events' = <<>>
            /\ run' = RunReset
            /\ grun' = GrunExecute(grun, c.id)
            /\ UNCHANGED <<undoStack, redoStack>>
       ELSE /\ undoStack' = AddToHistoryUndo(undoStack, c, undoLimit)
            /\ redoStack' = AddToHistoryRedo(redoStack, c)
            /\ events' = AddToHistoryEvents(undoStack, c, undoLimit)
            /\ run' = IF c.canUndo THEN RunExecute(run, doc, c.id) ELSE RunReset
            /\ grun' = GrunReset
            /\ UNCHANGED currentGroup
    /\ ExecuteTail(c, dies, garbage)
    /\ nextId' = nextId + 1
    /\ UNCHANGED <<undoLimit, tracking>>

\* bool CommandManager::executeCommand(std::unique_ptr<CADCommand> command)
ExecuteCommand ==
    /\ ~crashed
    /\ nextId <= (IF tracking THEN MaxDocCmds ELSE MaxCmds)
    /\ \E nm \in CmdNames, cu \in BOOLEAN, throws \in BOOLEAN :
         LET c == Atomic(nextId, nm, cu) IN
           IF throws THEN ExecuteFailed(c, "false")
           ELSE \E dies \in BOOLEAN, garbage \in {nm} :
                  ExecuteSucceeded(c, dies, garbage)
    /\ Quiet

\* A faulty undo() that, while a group with members is open, undoes and
\* removes the member executed last instead of looking at the undo stack.
UndoCallOpenGroupFirst(r) ==
    /\ ~crashed
    /\ ret' = r
    /\ grun' = GrunReset
    /\ run' = RunReset
    /\ events' = <<>>
    /\ IF currentGroup # <<>> /\ ~IsEmpty(currentGroup[1])
       THEN LET members == currentGroup[1].commands
                victim == members[Len(members)]
            IN /\ Track(CmdUndo(doc, victim))
               /\ calls' = << [op |-> "undo", id |-> victim.id, ok |-> TRUE] >>
               /\ currentGroup' =
                    << [currentGroup[1] EXCEPT
                          !.commands = SubSeq(members, 1, Len(members) - 1)] >>
               /\ last' = Op("undo", "ok", 0, TRUE)
       ELSE /\ calls' = <<>>
            /\ last' = Op("undo", "noop", 0, TRUE)
            /\ UNCHANGED <<doc, currentGroup>>
    /\ UNCHANGED <<undoStack, redoStack, undoLimit, commandInProgress,
                   lastCommand, crashed, tracking, nextId>>

\* CommandManager::undo() called directly (r is "none": it returns nothing) or
\* by executeCommand(const QString&), which then returns r
UndoCall(r) ==
    /\ ~crashed
    /\ ret' = r
    /\ grun' = GrunUndo(grun)
    /\ IF ~CanUndo(undoStack)
       THEN /\ events' = <<>>
            /\ calls' = <<>>
            /\ last' = Op("undo", "noop", 0, TRUE)
            /\ run' = RunReset
            /\ UNCHANGED <<undoStack, redoStack, doc>>
       ELSE LET command == StackTop(undoStack)
                rest == StackPop(undoStack)
            IN \E f \in 0..Len(UndoOrder(command)) :
                 /\ Track(EntryUndo(doc, command, f))
                 /\ calls' = CallLog("undo", UndoOrder(command), f)
                 /\ IF f = 0
                    THEN /\ undoStack' = rest
                         /\ redoStack' = StackPush(redoStack, command)
                         /\ events' = UpdateUndoRedoState(undoStack', redoStack')
                                      \o << Ev("historyChanged", "") >>
                         /\ last' = Op("undo", "ok", 0, TRUE)
                         /\ run' = RunUndo(run, command.id)
                    ELSE /\ undoStack' = UndoRestore(rest, command)
                         /\ events' = <<>>
                         /\ last' = Op("undo", "failed", 0, TRUE)
                         /\ run' = RunReset
                         /\ UNCHANGED redoStack
    /\ UNCHANGED <<currentGroup, undoLimit, commandInProgress, lastCommand,
                   crashed, tracking, nextId>>

\* void CommandManager::undo()
Undo == UndoCall("none") /\ Quiet

\* A faulty early return of redo() that still emits historyChanged.
RedoNothingNotifies ==
    /\ events' = << Ev("historyChanged", "") >>
    /\ calls' = <<>>
    /\ last' = Op("redo", "noop", 0, TRUE)
    /\ UNCHANGED <<undoStack, redoStack, doc>>

\* CommandManager::redo, early return: nothing to redo
RedoNothing ==
    /\ events' = <<>>
    /\ calls' = <<>>
    /\ last' = Op("redo", "noop", 0, TRUE)
    /\ UNCHANGED <<undoStack, redoStack, doc>>

\* CommandManager::redo() called directly or by executeCommand(const QString&),
\* which then returns r
RedoCall(r) ==
    /\ ~crashed
    /\ ret' = r
    /\ run' = RunReset
    /\ grun' = GrunReset
    /\ IF ~CanRedo(redoStack)
       THEN RedoNothing
       ELSE LET command == StackTop(redoStack)
                rest == StackPop(redoStack)
            IN \E f \in 0..Len(RedoOrder(command)) :
                 /\ Track(EntryRedo(doc, command, f))
                 /\ calls' = CallLog("execute", RedoOrder(command), f)
                 /\ IF f = 0
                    THEN /\ redoStack' = rest
                         /\ undoStack' = StackPush(undoStack, command)
                         /\ events' = UpdateUndoRedoState(undoStack', redoStack')
                                      \o << Ev("historyChanged", "") >>
                         /\ last' = Op("redo", "ok", 0, TRUE)
                    ELSE /\ redoStack' = RedoRestore(rest, command)
                         /\ events' = <<>>
                         /\ last' = Op("redo", "failed", 0, TRUE)
                         /\ UNCHANGED undoStack
    /\ UNCHANGED <<currentGroup, undoLimit, commandInProgress, lastCommand,
                   crashed, tracking, nextId>>

\* void CommandManager::redo()
Redo == RedoCall("none") /\ Quiet

\* void CommandManager::clearHistory()
ClearHistory ==
    /\ ~crashed
    /\ Quiet
    /\ undoStack' = <<>>
    /\ redoStack' = <<>>
    /\ events' = UpdateUndoRedoState(<<>>, <<>>) \o << Ev("historyChanged", "") >>
    /\ calls' = <<>>
    /\ ret' = "none"
    /\ last' = Op("clearHistory", "ok", 0, TRUE)
    /\ run' = RunReset
    /\ grun' = GrunReset
    /\ UNCHANGED <<currentGroup, undoLimit, commandInProgress, lastCommand, doc,
                   crashed, tracking, nextId>>

\* A faulty beginGroup that, with a group already open, keeps it and its
\* members instead of ending it.
BeginGroupKeepsOpen ==
    /\ ~crashed
    /\ Quiet
    /\ \E nm \in GroupNames :
         /\ currentGroup' = IF currentGroup # <<>> THEN currentGroup
                             ELSE << NewGroup(nm) >>
         /\ events' = << Ev("groupingChanged", "true") >>
         /\ last' = Op("beginGroup", "ok", 0, TRUE)
         /\ grun' = GrunBegin(undoStack, undoStack)
    /\ calls' = <<>>
    /\ ret' = "none"
    /\ run' = RunReset
    /\ UNCHANGED <<undoStack, redoStack, undoLimit, commandInProgress,
                   lastCommand, doc, crashed, tracking, nextId>>

\* A faulty beginGroup(groupName) that leaves an open group open.
BeginGroupCallKeepsOpen(nm) ==
    /\ currentGroup' = IF currentGroup # <<>> THEN currentGroup
                        ELSE << NewGroup(nm) >>
    /\ events' = << Ev("groupingChanged", "true") >>
    /\ last' = Op("beginGroup", "ok", 0, TRUE)
    /\ grun' = GrunBegin(undoStack, undoStack)
    /\ calls' = <<>>
    /\ ret' = "none"
    /\ run' = RunReset
    /\ UNCHANGED <<undoStack, redoStack, undoLimit, commandInProgress,
                   lastCommand, doc, crashed, tracking, nextId>>

\* beginGroup(groupName), called directly or by executeScriptText or
\* playMacro
BeginGroupCall(nm) ==
    /\ undoStack' = EndGroupUndo(undoStack, currentGroup, undoLimit)
    /\ redoStack' = EndGroupRedo(redoStack, currentGroup)
    /\ currentGroup' = << NewGroup(nm) >>
    /\ events' = EndGroupEvents(undoStack, currentGroup, undoLimit)
                 \o << Ev("groupingChanged", "true") >>
    /\ last' = Op("beginGroup", "ok", 0, TRUE)
    /\ grun' = GrunBegin(undoStack, undoStack')
    /\ calls' = <<>>
    /\ ret' = "none"
    /\ run' = RunReset
    /\ UNCHANGED <<undoLimit, commandInProgress, lastCommand, doc, crashed, tracking, nextId>>

\* void CommandManager::beginGroup(const QString& groupName)
BeginGroup ==
    /\ ~crashed
    /\ Quiet
    /\ \E nm \in GroupNames : BeginGroupCall(nm)

\* endGroup(), called directly (r is "none": it returns nothing) or by
\* executeScriptText, which then returns r, or by playMacro
EndGroupCall(r) ==
    /\ undoStack' = EndGroupUndo(undoStack, currentGroup, undoLimit)
    /\ redoStack' = EndGroupRedo(redoStack, currentGroup)
    /\ currentGroup' = <<>>
    /\ events' = EndGroupEvents(undoStack, currentGroup, undoLimit)
    /\ last' = Op("endGroup", IF currentGroup = <<>> THEN "noop" ELSE "ok", 0, TRUE)
    /\ grun' = GrunEnd(grun, undoStack')
    /\ calls' = <<>>
    /\ ret' = r
    /\ run' = RunReset
    /\ UNCHANGED <<undoLimit, commandInProgress, lastCommand, doc, crashed, tracking, nextId>>

\* void CommandManager::endGroup()
EndGroup ==
    /\ ~crashed
    /\ Quiet
    /\ EndGroupCall("none")

\* void CommandManager::setUndoLimit(int limit)
SetUndoLimit ==
    /\ ~crashed
    /\ Quiet
    /\ \E n \in 0..MaxLimit :
         /\ undoLimit' = ClampLimit(n)
         /\ undoStack' = TrimHistory(undoStack, undoLimit')
         /\ last' = Op("setUndoLimit", "ok", n, TRUE)
         /\ grun' = GrunReset
    /\ events' = <<>>
    /\ calls' = <<>>
    /\ ret' = "none"
    /\ run' = RunReset
    /\ UNCHANGED <<redoStack, currentGroup, commandInProgress, lastCommand, doc,
                   crashed, tracking, nextId>>

\* executeCommand(const QString&) did not reach undo(), redo() or
\* executeCommand(std::unique_ptr<CADCommand>): the engine is as it was.
NoEngine(outcome, evs, r) ==
    /\ events' = evs
    /\ calls' = <<>>
    /\ ret' = r
    /\ last' = Op("submit", outcome, 0, TRUE)
    /\ run' = RunReset
    /\ grun' = GrunReset
    /\ UNCHANGED <<undoStack, redoStack, currentGroup, undoLimit,
                   commandInProgress, lastCommand, doc, crashed, tracking, nextId>>

\* A faulty routing that takes the first token as the command name without
\* resolving it.
RouteOfNoAlias(al, line) ==
    IF Trimmed(line) = <<>>
    THEN [route |-> "blank", name |-> <<>>, args |-> <<>>]
    ELSE IF ParseCommandLine(line) = <<>>
    THEN [route |-> "notokens", name |-> <<>>, args |-> <<>>]
    ELSE LET parts == ParseCommandLine(line)
             commandName == ToLower(parts[1])
         IN [route |-> IF commandName \in {KwU, KwUndo} THEN "undo"
                       ELSE IF commandName = KwRedo THEN "redo"
                       ELSE IF commandName = KwRepeat \/ commandName = <<>>
                            THEN "repeat"
                       ELSE "create",
             name |-> commandName,
             args |-> Tail(parts)]

\* A faulty routing that does not know the name repeat: the line goes to
\* createCommand like any other name.
RouteOfRepeatForgotten(al, line) ==
    IF Trimmed(line) = <<>>
    THEN [route |-> "blank", name |-> <<>>, args |-> <<>>]
    ELSE IF ParseCommandLine(line) = <<>>
    THEN [route |-> "notokens", name |-> <<>>, args |-> <<>>]
    ELSE LET parts == ParseCommandLine(line)
             commandName == ResolveAlias(al, ToLower(parts[1]))
         IN [route |-> IF commandName \in {KwU, KwUndo} THEN "undo"
                       ELSE IF commandName = KwRedo THEN "redo"
                       ELSE "create",
             name |-> commandName,
             args |-> Tail(parts)]

\* executeCommand(const QString&), lines 89-126: where the line goes.  "blank":
\* the early return of line 90; "notokens": the early return of line 107;
\* otherwise the first token is lower-cased, the alias is resolved, and the
\* resulting name selects undo(), redo(), repeatLastCommand() or createCommand.
RouteOf(al, line) ==
    IF Trimmed(line) = <<>>
    THEN [route |-> "blank", name |-> <<>>, args |-> <<>>]
    ELSE IF ParseCommandLine(line) = <<>>
    THEN [route |-> "notokens", name |-> <<>>, args |-> <<>>]
    ELSE LET parts == ParseCommandLine(line)
             commandName == ResolveAlias(al, ToLower(parts[1]))
         IN [route |-> IF commandName \in {KwU, KwUndo} THEN "undo"
                       ELSE IF commandName = KwRedo THEN "redo"
                       ELSE IF commandName = KwRepeat \/ commandName = <<>>
                            THEN "repeat"
                       ELSE "create",
             name |-> commandName,
             args |-> Tail(parts)]

\* A faulty recorder that appends the resolved command name, not the raw line.
RecordedResolved(rec, line) ==
    IF recording THEN Append(rec, RouteOf(aliases, line).name) ELSE rec

\* executeCommand(const QString&), lines 100-102: the recording buffer after it
Recorded(rec, line) ==
    IF recording THEN Append(rec, line) ELSE rec

\* executeCommand(const QString&), lines 95-97: the lines echoed so far
Echoed(echo, line) ==
    IF commandEcho THEN Append(echo, line) ELSE echo

\* A faulty early return that answers true for a blank line.
BlankLineAccepted(r) ==
    NoEngine("blank", <<>>, "true")

\* executeCommand(const QString&), lines 89-91: a blank line.  The caller of
\* the outermost call sees r.
BlankLine(r) ==
    NoEngine("blank", <<>>, r)

\* One call of executeCommand(const QString&) on a line that does not lead to a
\* nested call.  s0 is what was observed before the call (the outermost line
\* and its route, the lines echoed so far), rec the recording
\* buffer before the call, nested whether repeatLastCommand made the call (the
\* outermost call then returns true whatever this one returns).
Perform(info, line, rec, s0, nested) ==
    LET R(r) == IF nested THEN "true" ELSE r
        counted == info.route # "blank"
        seen == [s0 EXCEPT !.name = info.name,
                           !.args = info.args,
                           !.nested = nested,
                           !.found = IF info.route # "create" THEN "none"
                                     ELSE IF Registered(commands, info.name)
                                     THEN CreateCommand(commands, info.name).kind
                                     ELSE "absent",
                           !.made = IF info.route = "create"
                                    THEN CreateCommand(commands, info.name).name
                                    ELSE <<>>,
                           !.route = IF nested THEN s0.route ELSE info.route,
                           !.echo = IF counted THEN Echoed(@, line) ELSE @]
    IN /\ recordedCommands' = IF counted THEN Recorded(rec, line) ELSE rec
       /\ UNCHANGED <<commands, aliases, recording, currentMacroName, macros,
                      commandEcho>>
       /\ CASE info.route = "blank" ->
                 BlankLine(R("false")) /\ sub' = seen
            [] info.route = "notokens" ->
                 NoEngine("notokens", <<>>, R("false")) /\ sub' = seen
            [] info.route = "undo" ->
                 UndoCall("true") /\ sub' = seen
            [] info.route = "redo" ->
                 RedoCall("true") /\ sub' = seen
            [] info.route = "repeat" ->
                 \* repeatLastCommand with nothing to repeat
                 NoEngine("norepeat", <<>>, "true") /\ sub' = seen
            [] info.route = "create" ->
                 LET f == CreateCommand(commands, info.name)
                 IN IF f.kind # "ok"
                    THEN /\ NoEngine("unknown",
                                     << [name |-> "commandFailed", arg |-> line,
                                         error |-> "Unknown command"] >>,
                                     R("false"))
                         /\ sub' = [seen EXCEPT !.route =
                                       IF nested THEN s0.route ELSE "unknown"]
                    ELSE /\ nextId <= (IF tracking THEN MaxDocCmds ELSE MaxCmds)
                         /\ sub' = [seen EXCEPT !.route =
                                       IF nested THEN s0.route ELSE "execute"]
                         /\ \E cu \in BOOLEAN, throws \in BOOLEAN :
                              LET c == Atomic(nextId, f.name, cu) IN
                                IF throws THEN ExecuteFailed(c, R("false"))
                                ELSE \E dies \in BOOLEAN :
                                       ExecuteSucceeded(c, dies, f.name)

\* What is observed of an outermost executeCommand(const QString&) before it
\* starts.
Submitted(line, route) ==
    [NoSubmit EXCEPT !.line = line, !.route = route]

\* bool CommandManager::executeCommand(const QString& commandLine), with the
\* nested call repeatLastCommand makes when m_lastCommand is not empty.  A
\* stored last command that itself leads to repeatLastCommand recurses until
\* the stack overflows.
SubmitLine(line) ==
    LET info == RouteOf(aliases, line)
        s0 == Submitted(line, info.route)
    IN IF info.route = "repeat" /\ lastCommand # <<>>
       THEN LET inner == RouteOf(aliases, lastCommand)
                s1 == [s0 EXCEPT !.echo = Echoed(@, line)]
            IN IF inner.route = "repeat"
               THEN /\ crashed' = TRUE
                    /\ ret' = "none"
                    /\ events' = <<>>
                    /\ calls' = <<>>
                    /\ last' = Op("submit", "crashed", 0, TRUE)
                    /\ run' = RunReset
                    /\ grun' = GrunReset
                    /\ sub' = s1
                    /\ recordedCommands' = Recorded(recordedCommands, line)
                    /\ UNCHANGED <<undoStack, redoStack, currentGroup, undoLimit,
                                   commandInProgress, lastCommand, doc, tracking,
                                   nextId, commands, aliases, recording,
                                   currentMacroName, macros, commandEcho>>
               ELSE Perform(inner, lastCommand,
                            Recorded(recordedCommands, line), s1, TRUE)
       ELSE Perform(info, line, recordedCommands, s0, FALSE)

\* The lines given to executeCommand(const QString&)
Lines ==
    { <<>>,
      << " ", "\t" >>,
      << "u", "n", "d", "o" >>,
      << "r", "e", "d", "o" >>,
      << "r", "e", "p", "e", "a", "t" >>,
      << "L", "I", "N", "E" >>,
      << "x" >>,
      << " ", "l", " ", "\"", "a", " ", "b", "\"" >> }

\* The names given to registerCommand and unregisterCommand
RegNames == { << "L", "i", "n", "e" >> }

\* What the registered factories do
FactoryKinds == {"throws", "ok"}

\* The (alias, command) pairs given to registerAlias
AliasPairs ==
    { << << "X" >>, << "R", "e", "d", "o" >> >>,
      << << "U", "n", "d", "o" >>, << "L", "i", "n", "e" >> >> }

\* bool CommandManager::executeCommand(const QString& commandLine)
Submit ==
    /\ ~crashed
    /\ submits < MaxSubmits
    /\ submits' = submits + 1
    /\ probe' = NoProbe
    /\ task' = NoTask
    /\ \E line \in Lines : SubmitLine(line)
    /\ Len(recordedCommands') <= MaxRecorded

\* An operation on the registry, the alias table or the recorder: the engine
\* is as it was, and so is what was observed of it.
EngineIdle ==
    /\ ~crashed
    /\ UNCHANGED <<undoStack, redoStack, currentGroup, undoLimit,
                   commandInProgress, lastCommand, doc, crashed, tracking, nextId,
                   events, calls, ret, last, run, grun, sub, submits>>
    /\ probe' = NoProbe
    /\ task' = NoTask

\* void CommandManager::registerCommand(name, factory), the name drawn from
\* names and what the factory does from kinds.  The commands a factory builds
\* report the lower-cased name it was registered under.
RegisterCommandOf(names, kinds) ==
    /\ EngineIdle
    /\ \E nm \in names, kind \in kinds :
         commands' = Put(commands, ToLower(nm), Factory(kind, ToLower(nm)))
    /\ UNCHANGED <<aliases, recording, currentMacroName, recordedCommands,
                   macros, commandEcho>>

RegisterCommand == RegisterCommandOf(RegNames, FactoryKinds)

\* A faulty unregisterCommand that discards the history with the entry.
UnregisterCommandDropsHistory ==
    /\ ~crashed
    /\ \E nm \in RegNames : commands' = Remove(commands, ToLower(nm))
    /\ undoStack' = <<>>
    /\ redoStack' = <<>>
    /\ probe' = NoProbe
    /\ task' = NoTask
    /\ UNCHANGED <<currentGroup, undoLimit, commandInProgress, lastCommand, doc,
                   crashed, tracking, nextId, events, calls, ret, last, run,
                   grun, sub, submits>>
    /\ UNCHANGED <<aliases, recording, currentMacroName, recordedCommands,
                   macros, commandEcho>>

\* void CommandManager::unregisterCommand(name)
UnregisterCommand ==
    /\ EngineIdle
    /\ \E nm \in RegNames : commands' = Remove(commands, ToLower(nm))
    /\ UNCHANGED <<aliases, recording, currentMacroName, recordedCommands,
                   macros, commandEcho>>

\* void CommandManager::registerAlias(alias, command), the two names drawn
\* from pairs
RegisterAliasOf(pairs) ==
    /\ EngineIdle
    /\ \E p \in pairs :
         aliases' = Put(aliases, ToLower(p[1]), ToLower(p[2]))
    /\ UNCHANGED <<commands, recording, currentMacroName, recordedCommands,
                   macros, commandEcho>>

RegisterAlias == RegisterAliasOf(AliasPairs)

\* void CommandManager::unregisterAlias(alias), the alias drawn from pairs
UnregisterAliasOf(pairs) ==
    /\ EngineIdle
    /\ \E p \in pairs : aliases' = Remove(aliases, ToLower(p[1]))
    /\ UNCHANGED <<commands, recording, currentMacroName, recordedCommands,
                   macros, commandEcho>>

UnregisterAlias == UnregisterAliasOf(AliasPairs)

\* The (alias, command) pairs given to registerAlias when aliases are chained:
\* l is registered again in upper case, a and b name each other, b and c are
\* made aliases of a.
ChainPairs ==
    { << << "L" >>, << "L", "I", "N", "E" >> >>,
      << << "A" >>, << "B" >> >>,
      << << "B" >>, << "A" >> >>,
      << << "B" >>, << "C" >> >>,
      << << "C" >>, << "A" >> >> }

RegisterAliasChained == RegisterAliasOf(ChainPairs)

UnregisterAliasChained == UnregisterAliasOf(ChainPairs)

\* The names given to registerCommand, what their factories do, and the pair
\* given to registerAlias, when an alias is registered for a command that is
\* not a built-in one.
LateNames == { << "G", "o" >>, << "X" >> }

LateKinds == {"ok"}

LatePairs == { << << "X" >>, << "G", "o" >> >> }

RegisterCommandLate == RegisterCommandOf(LateNames, LateKinds)

RegisterAliasLate == RegisterAliasOf(LatePairs)

\* The characters of the lines given to parseCommandLine: a letter, two
\* kinds of whitespace, the double quote.
LineChars == { "a", " ", "\t", "\"" }

\* foo "bar baz" qux
LineFooBarBazQux ==
    << "f", "o", "o", " ", "\"", "b", "a", "r", " ", "b", "a", "z", "\"", " ",
       "q", "u", "x" >>

\* a "b c   (the quote is not closed)
LineUnterminated == << "a", " ", "\"", "b", " ", "c" >>

\* The lines given to parseCommandLine
ParsedLines ==
    UNION { [1..n -> LineChars] : n \in 0..MaxLineLen }
      \cup { LineFooBarBazQux, LineUnterminated }

\* QStringList CommandManager::parseCommandLine(const QString& commandLine),
\* called on its own
Tokenize ==
    /\ ~crashed
    /\ \E line \in ParsedLines :
         probe' = [fn |-> "parseCommandLine", input |-> line,
                   output |-> ParseCommandLine(line)]
    /\ UNCHANGED <<undoStack, redoStack, currentGroup, undoLimit,
                   commandInProgress, lastCommand, doc, crashed, tracking, nextId,
                   events, calls, ret, last, run, grun, sub, submits>>
    /\ task' = NoTask
    /\ UNCHANGED dispatchVars

\* The pair given to registerAlias when the name of a command is made an
\* alias of repeat
RepeatPairs ==
    { << << "L", "i", "n", "e" >>, << "R", "e", "p", "e", "a", "t" >> >> }

RegisterAliasRepeat == RegisterAliasOf(RepeatPairs)

\* The names given to resolveAlias
ResolveNames ==
    { << "L" >>, << "l" >>, << "A" >>, << "a" >>, << "b" >>, << "C" >>,
      << "F", "o", "O" >>, << "L", "i", "n", "e" >> }

\* QString CommandManager::resolveAlias(const QString& command) const, called
\* on its own
Resolve ==
    /\ ~crashed
    /\ \E nm \in ResolveNames :
         probe' = [fn |-> "resolveAlias", input |-> nm,
                   output |-> ResolveAlias(aliases, nm)]
    /\ UNCHANGED <<undoStack, redoStack, currentGroup, undoLimit,
                   commandInProgress, lastCommand, doc, crashed, tracking, nextId,
                   events, calls, ret, last, run, grun, sub, submits>>
    /\ task' = NoTask
    /\ UNCHANGED dispatchVars

\* A faulty store that keeps the buffer of a recording even when it is empty.
StoredMacrosEvenEmpty ==
    IF recording
    THEN Put(macros, currentMacroName, recordedCommands)
    ELSE macros

\* stopRecording, lines 460-462: the macros after a recording ends (the macro
\* file it also writes is outside the engine).
StoredMacros ==
    IF recording /\ recordedCommands # <<>>
    THEN Put(macros, currentMacroName, recordedCommands)
    ELSE macros

\* A faulty startRecording that goes on with the buffer it finds.
StartRecordingKeepsBufferOf(names) ==
    /\ EngineIdle
    /\ \E nm \in names :
         /\ macros' = StoredMacros
         /\ recording' = TRUE
         /\ currentMacroName' = nm
         /\ UNCHANGED recordedCommands
    /\ UNCHANGED <<commands, aliases, commandEcho>>

\* void CommandManager::startRecording(const QString& macroName), the name
\* drawn from names
StartRecordingOf(names) ==
    /\ EngineIdle
    /\ \E nm \in names :
         /\ macros' = StoredMacros
         /\ recording' = TRUE
         /\ currentMacroName' = nm
         /\ recordedCommands' = <<>>
    /\ UNCHANGED <<commands, aliases, commandEcho>>

StartRecording == StartRecordingOf(MacroNames)

\* The names given to startRecording when one recording follows another
NextMacroNames == {"m", "n"}

StartRecordingNext == StartRecordingOf(NextMacroNames)

\* void CommandManager::stopRecording()
StopRecording ==
    /\ EngineIdle
    /\ macros' = StoredMacros
    /\ recording' = FALSE
    /\ currentMacroName' = IF recording THEN "" ELSE currentMacroName
    /\ recordedCommands' = IF recording THEN <<>> ELSE recordedCommands
    /\ UNCHANGED <<commands, aliases, commandEcho>>

Next ==
    \/ ExecuteCommand
    \/ Undo
    \/ Redo
    \/ ClearHistory
    \/ BeginGroup
    \/ EndGroup
    \/ SetUndoLimit

\* The engine with the document
Spec == Init /\ [][Next]_vars

\* The engine alone
SpecHistory == InitHistory /\ [][Next]_vars

\* The textual surface: the dispatcher, the registry, the alias table and
\* grouping
NextDispatch ==
    \/ Submit
    \/ RegisterCommand
    \/ UnregisterCommand
    \/ RegisterAlias
    \/ UnregisterAlias
    \/ BeginGroup
    \/ EndGroup

\* The command manager driven through its textual surface
SpecDispatch == Init /\ [][NextDispatch]_vars

\* The recorder: lines are submitted while recordings start and stop
NextRecording ==
    \/ Submit
    \/ RegisterCommand
    \/ StartRecording
    \/ StopRecording
    \/ BeginGroup

\* The command manager while macros are recorded
SpecRecording == Init /\ [][NextRecording]_vars

\* Lines submitted while commands and an alias for one of them are registered
\* in any order.
NextLate == Submit \/ RegisterCommandLate \/ RegisterAliasLate

SpecLate == Init /\ [][NextLate]_vars

\* Lines submitted while recordings under two names are started and stopped.
NextMacros == Submit \/ StartRecordingNext \/ StopRecording

SpecMacros == Init /\ [][NextMacros]_vars

\* QString::split('\n', Qt::SkipEmptyParts), from character i on
RECURSIVE SplitFrom(_, _, _, _)
SplitFrom(text, i, parts, current) ==
    IF i > Len(text)
    THEN (IF current # <<>> THEN Append(parts, current) ELSE parts)
    ELSE IF text[i] = "\n"
         THEN SplitFrom(text, i + 1,
                        IF current # <<>> THEN Append(parts, current) ELSE parts,
                        <<>>)
    ELSE SplitFrom(text, i + 1, parts, Append(current, text[i]))

\* executeScriptText, line 415: the lines of the script
SplitLines(text) == SplitFrom(text, 1, <<>>, <<>>)

\* A faulty test that takes only ';' for a comment marker.
ScriptSkipsSemicolonOnly(trimmedLine) ==
    \/ trimmedLine = <<>>
    \/ trimmedLine[1] = ";"

\* executeScriptText, line 424: the trimmed lines that are passed over
ScriptSkips(trimmedLine) ==
    \/ trimmedLine = <<>>
    \/ trimmedLine[1] = ";"
    \/ trimmedLine[1] = "#"

\* The trimmed lines of a script that are given to executeCommand
RECURSIVE ScriptSends(_)
ScriptSends(lines) ==
    IF lines = <<>> THEN <<>>
    ELSE IF ScriptSkips(Trimmed(Head(lines))) THEN ScriptSends(Tail(lines))
    ELSE << Trimmed(Head(lines)) >> \o ScriptSends(Tail(lines))

\* The script texts given to executeScriptText, line by line:
\*   y / ;c / (space, tab) / (empty) / #c / (space)x(space)
\*   x / y
ScriptTexts ==
    { << "y", "\n", ";", "c", "\n", " ", "\t", "\n", "\n", "#", "c", "\n",
         " ", "x", " " >>,
      << "x", "\n", "y" >> }

\* beginGroup("Script Execution"), line 418
ScriptGroupName == "Script Execution"

\* QString("Macro: %1").arg(macroName), line 488
MacroGroupName(nm) ==
    CASE nm = "m" -> "Macro: m"
      [] nm = "n" -> "Macro: n"

\* What the model can still hold of the lines a script or a macro gives to
\* executeCommand: each may execute a command and each is recorded while a
\* recording is active.
Affordable(lines) ==
    /\ nextId + Len(lines) - 1 <= (IF tracking THEN MaxDocCmds ELSE MaxCmds)
    /\ recording => Len(recordedCommands) + Len(lines) <= MaxRecorded

\* What executeScriptText and playMacro leave alone when they call beginGroup
\* or endGroup.
TaskFrame ==
    /\ sub' = NoSubmit
    /\ probe' = NoProbe
    /\ UNCHANGED dispatchVars
    /\ UNCHANGED submits

\* executeScriptText, lines 415-418: the text is split and the group begun
ScriptBegin ==
    /\ ~crashed
    /\ task.kind = "none"
    /\ \E text \in ScriptTexts :
         /\ Affordable(ScriptSends(SplitLines(text)))
         /\ BeginGroupCall(ScriptGroupName)
         /\ task' = [NoTask EXCEPT !.kind = "script",
                                   !.lines = SplitLines(text),
                                   !.opened = undoStack']
    /\ TaskFrame

\* executeScriptText, lines 420-431: one turn of the loop
ScriptLine ==
    /\ ~crashed
    /\ task.kind = "script"
    /\ task.lines # <<>>
    /\ LET trimmedLine == Trimmed(Head(task.lines))
       IN IF ScriptSkips(trimmedLine)
          THEN /\ task' = [task EXCEPT !.lines = Tail(@)]
               /\ UNCHANGED <<undoStack, redoStack, currentGroup, undoLimit,
                              commandInProgress, lastCommand, doc, crashed,
                              tracking, nextId, events, calls, ret, last, run,
                              grun, sub, submits, probe>>
               /\ UNCHANGED dispatchVars
          ELSE /\ SubmitLine(trimmedLine)
               /\ task' = [task EXCEPT
                             !.lines = Tail(@),
                             !.sent = Append(@, trimmedLine),
                             !.failed = IF ret' = "false"
                                        THEN Append(@, trimmedLine) ELSE @,
                             !.success = @ /\ ret' # "false"]
               /\ probe' = NoProbe
               /\ UNCHANGED submits

\* executeScriptText, lines 434-435: the group is ended and the flag returned
ScriptEnd ==
    /\ ~crashed
    /\ task.kind = "script"
    /\ task.lines = <<>>
    /\ EndGroupCall(BoolStr(task.success))
    /\ task' = [task EXCEPT !.kind = "none", !.was = "script",
                            !.closed = undoStack']
    /\ TaskFrame

\* playMacro, lines 484-488: the macro is found in m_macros and the group
\* begun; a name that is not found changes nothing (no macro file of an
\* earlier session exists).
PlayMacroBegin ==
    /\ ~crashed
    /\ task.kind = "none"
    /\ \E nm \in MacroNames :
         IF nm \in DOMAIN macros
         THEN /\ Affordable(macros[nm])
              /\ BeginGroupCall(MacroGroupName(nm))
              /\ task' = [NoTask EXCEPT !.kind = "macro",
                                        !.lines = macros[nm],
                                        !.opened = undoStack']
         ELSE /\ NoEngine("nomacro", <<>>, "none")
              /\ task' = NoTask
    /\ TaskFrame

\* playMacro, lines 489-491: one turn of the loop
MacroLine ==
    /\ ~crashed
    /\ task.kind = "macro"
    /\ task.lines # <<>>
    /\ SubmitLine(Head(task.lines))
    /\ task' = [task EXCEPT
                  !.lines = Tail(@),
                  !.sent = Append(@, Head(task.lines)),
                  !.failed = IF ret' = "false"
                             THEN Append(@, Head(task.lines)) ELSE @,
                  !.success = @ /\ ret' # "false"]
    /\ probe' = NoProbe
    /\ UNCHANGED submits

\* playMacro, line 492: the group is ended
MacroEnd ==
    /\ ~crashed
    /\ task.kind = "macro"
    /\ task.lines = <<>>
    /\ EndGroupCall("none")
    /\ task' = [task EXCEPT !.kind = "none", !.was = "macro",
                            !.closed = undoStack']
    /\ TaskFrame

\* No executeScriptText and no playMacro is in progress: they run to their
\* end before anything else is called.
Idle == task.kind = "none"

\* The command name a program registers for its scripts
ScriptNames == { << "X" >> }

\* registerCommand of a script command whose factory makes a command
RegisterCommandScript == RegisterCommandOf(ScriptNames, {"ok"})

\* Scripts and macros: a script command is registered, commands are executed,
\* groups are begun, recordings are started and stopped, and scripts and
\* macros are run; the lines of a macro are those a script submitted while a
\* recording was active.
NextScript ==
    \/ Idle /\ RegisterCommandScript
    \/ Idle /\ ExecuteCommand
    \/ Idle /\ BeginGroup
    \/ Idle /\ StartRecording
    \/ Idle /\ StopRecording
    \/ ScriptBegin
    \/ ScriptLine
    \/ ScriptEnd
    \/ PlayMacroBegin
    \/ MacroLine
    \/ MacroEnd

SpecScript == InitHistory /\ [][NextScript]_vars

\* Lines submitted while a command is registered and its name is made an alias
\* of repeat.
NextRepeat == Submit \/ RegisterCommand \/ RegisterAliasRepeat

SpecRepeat == Init /\ [][NextRepeat]_vars

\* parseCommandLine on its own.
NextTokenizer == Tokenize

SpecTokenizer == Init /\ [][NextTokenizer]_vars

\* The alias table and resolveAlias on their own.
NextResolve == RegisterAliasChained \/ UnregisterAliasChained \/ Resolve

SpecResolve == Init /\ [][NextResolve]_vars

----------------------------------------------------------------------------
(* Properties *)

\* C1: after n successful top-level executes of undoable commands c1..cn
\* followed by k <= n successful undos (the streak not interrupted by any other
\* operation), the undos reverted cn, c(n-1), ... in that order and the
\* document equals the document before the k-th last execute; with k = n it
\* equals the document before c1.
C1_UndoRestoresDocument ==
    run.undos # <<>> =>
        LET k == Len(run.undos)
            m == Len(run.cmds)
        IN /\ k <= m
           /\ \A i \in 1..k : run.undos[i] = run.cmds[m + 1 - i]
           /\ doc = run.docs[m + 1 - k]

\* C1: two executes have been undone by two undos.
C1_Witness ==
    /\ Len(run.cmds) = 2
    /\ Len(run.undos) = 2
    /\ last.op = "undo"
    /\ last.outcome = "ok"

\* C2 as stated: after any successful execute, in any engine state and for any
\* command, canRedo() is false.
C2_Original ==
    (last.op = "execute" /\ last.outcome = "ok") => ~CanRedo(redoStack)

\* C2 amended: a successful execute made with no group open, of a command
\* whose canUndo() is true, leaves canRedo() false, and canRedo() turns from
\* false to true only by an undo().
C2_RedoClearedByTopLevelExecute ==
    [][ /\ ( /\ last'.op = "execute"
             /\ last'.outcome = "ok"
             /\ last'.undoable
             /\ currentGroup = <<>> ) => ~CanRedo(redoStack')
        /\ (~CanRedo(redoStack) /\ CanRedo(redoStack')) => last'.op = "undo"
      ]_vars

\* C2: a top-level execute of an undoable command has emptied a redo stack
\* that held undone commands.
C2_Witness ==
    /\ last.op = "execute"
    /\ last.outcome = "ok"
    /\ last.undoable
    /\ currentGroup = <<>>
    /\ last.redoLen > 0
    /\ redoStack = <<>>

\* C3 as stated: in every reachable state the undo stack holds at most
\* m_undoLimit entries.
C3_UndoStackWithinLimit == Len(undoStack) <= undoLimit

\* C4: setUndoLimit(n) sets the limit to max(1, n); an undo stack of more than
\* max(1, n) entries is cut to its max(1, n) newest entries, order kept.
C4_SetUndoLimitKeepsNewest ==
    [][ last'.op = "setUndoLimit" =>
          LET n == last'.n
              lim == IF n >= 1 THEN n ELSE 1
              k == Len(undoStack)
          IN /\ undoLimit' = lim
             /\ k > lim =>
                  /\ Len(undoStack') = lim
                  /\ \A i \in 1..lim : undoStack'[i] = undoStack[k - lim + i]
      ]_vars

\* C4: setUndoLimit(0) has cut a stack of two or more entries to one.
C4_Witness ==
    /\ last.op = "setUndoLimit"
    /\ last.n = 0
    /\ last.undoLen >= 2
    /\ Len(undoStack) = 1
    /\ undoLimit = 1

Min(a, b) == IF a <= b THEN a ELSE b

\* The entry is a group whose members are the commands ids, in that order.
IsGroupOf(e, ids) ==
    /\ e.isGroup
    /\ Len(e.commands) = Len(ids)
    /\ \A i \in 1..Len(ids) : e.commands[i].id = ids[i]

\* The sequence beginGroup; execute(a); execute(b); endGroup has just ended.
GroupOfTwoClosed == grun.phase = "closed" /\ Len(grun.ids) = 2

\* ... and undo() was then called, and no member's undo() threw.
GroupOfTwoUndone ==
    /\ grun.phase = "undone"
    /\ Len(grun.ids) = 2
    /\ last.op = "undo"
    /\ last.outcome = "ok"

\* What C5 says of the undo() that follows: b is undone, then a, and the
\* group moves from the top of the undo stack to the top of the redo stack.
GroupUndoneInReverse ==
    /\ Len(calls) = 2
    /\ calls[1] = [op |-> "undo", id |-> grun.ids[2], ok |-> TRUE]
    /\ calls[2] = [op |-> "undo", id |-> grun.ids[1], ok |-> TRUE]
    /\ redoStack # <<>>
    /\ IsGroupOf(redoStack[Len(redoStack)], grun.ids)
    /\ undoStack = SubSeq(grun.closed, 1, Len(grun.closed) - 1)

C6_FailedUndoRestoresStacks ==
    [][ (last'.op = "undo" /\ last'.outcome = "failed") =>
          /\ undoStack' = undoStack
          /\ redoStack' = redoStack
          /\ \A i \in 1..Len(events') : events'[i].name # "historyChanged"
      ]_vars

\* C6: an undo() has failed on a non-empty undo stack.
C6_Witness ==
    /\ last.op = "undo"
    /\ last.outcome = "failed"
    /\ undoStack # <<>>
    /\ redoStack # <<>>

\* C7: redo() takes the top of the redo stack and calls its redo(); on success
\* that command is the new top of the undo stack and is gone from the redo
\* stack; on failure it is back on top of the redo stack and the undo stack is
\* unchanged.
C7_RedoMovesOrRestores ==
    [][ (last'.op = "redo" /\ last'.outcome # "noop") =>
          LET top == redoStack[Len(redoStack)]
              first == IF top.isGroup THEN top.commands[1] ELSE top
          IN /\ redoStack # <<>>
             /\ calls' # <<>>
             /\ calls'[1].op = "execute"
             /\ calls'[1].id = first.id
             /\ last'.outcome = "ok" =>
                  /\ undoStack' = Append(undoStack, top)
                  /\ redoStack' = SubSeq(redoStack, 1, Len(redoStack) - 1)
             /\ last'.outcome = "failed" =>
                  /\ redoStack' = redoStack
                  /\ undoStack' = undoStack
      ]_vars

\* C7: a redo() has failed with entries on both stacks.
C7_Witness ==
    /\ last.op = "redo"
    /\ last.outcome = "failed"
    /\ redoStack # <<>>
    /\ undoStack # <<>>

\* C8: when command->execute() throws, executeCommand returns false, clears
\* m_commandInProgress, emits commandFailed, and leaves the undo stack, the
\* redo stack and the open group unchanged.
C8_FailedExecuteChangesNothing ==
    [][ (last'.op = "execute" /\ last'.outcome = "failed") =>
          /\ ret' = "false"
          /\ commandInProgress' = FALSE
          /\ \E i \in 1..Len(events') : events'[i].name = "commandFailed"
          /\ undoStack' = undoStack
          /\ redoStack' = redoStack
          /\ currentGroup' = currentGroup
      ]_vars

\* C8: an execute has failed while a group with a member was open and the undo
\* stack held an entry.
C8_Witness ==
    /\ last.op = "execute"
    /\ last.outcome = "failed"
    /\ currentGroup # <<>>
    /\ currentGroup[1].commands # <<>>
    /\ undoStack # <<>>

RECURSIVE HeldIn(_)
\* The identities of the commands a sequence of entries holds, groups' members
\* included, with repetitions.
HeldIn(s) ==
    IF s = <<>> THEN <<>>
    ELSE (IF s[1].isGroup THEN HeldIn(s[1].commands) ELSE << s[1].id >>)
         \o HeldIn(Tail(s))

\* Every command held by the undo stack, the redo stack and the open group.
Held(us, rs, cg) == HeldIn(us) \o HeldIn(rs) \o HeldIn(cg)

Times(s, x) == Cardinality({i \in 1..Len(s) : s[i] = x})

C10_NonUndoableNotPushed ==
    ( /\ last.op = "execute"
      /\ last.outcome # "failed"
      /\ ~last.undoable
      /\ currentGroup = <<>> ) =>
        /\ Len(undoStack) = last.undoLen
        /\ ret = "true"

\* No entry of either stack is a group without members.
NoEmptyGroupOnStacks ==
    /\ \A i \in 1..Len(undoStack) :
         undoStack[i].isGroup => undoStack[i].commands # <<>>
    /\ \A i \in 1..Len(redoStack) :
         redoStack[i].isGroup => redoStack[i].commands # <<>>

C12_EndGroupPushesLikeExecute ==
    [][ (last'.op = "endGroup" /\ currentGroup # <<>>
                                /\ ~IsEmpty(currentGroup[1])) =>
          LET n == Min(Len(undoStack) + 1, undoLimit)
              all == Append(undoStack, currentGroup[1])
          IN /\ redoStack' = <<>>
             /\ Len(undoStack') = n
             /\ undoStack'[n] = currentGroup[1]
             /\ \A i \in 1..n : undoStack'[i] = all[Len(all) - n + i]
             /\ currentGroup' = <<>>
      ]_vars

\* C12: endGroup() has pushed a group onto an undo stack that was at the limit
\* while the redo stack held an entry.
C12_Witness ==
    /\ last.op = "endGroup"
    /\ last.outcome = "ok"
    /\ last.redoLen > 0
    /\ last.undoLen >= undoLimit
    /\ undoStack # <<>>
    /\ undoStack[Len(undoStack)].isGroup
    /\ redoStack = <<>>

\* The position of the first signal named nm with argument arg, 0 if none.
FirstEvent(evs, nm, arg) ==
    IF \E i \in 1..Len(evs) : evs[i].name = nm /\ evs[i].arg = arg
    THEN CHOOSE i \in 1..Len(evs) :
           /\ evs[i].name = nm /\ evs[i].arg = arg
           /\ \A j \in 1..(i - 1) : ~(evs[j].name = nm /\ evs[j].arg = arg)
    ELSE 0

\* C13: beginGroup(name) with a group open first ends that group (a group with
\* members becomes the top entry of the undo stack and the redo stack is
\* cleared; a group without members is discarded and the stacks stay as they
\* were), signalling groupingChanged(false) before groupingChanged(true); after
\* any beginGroup exactly one group is open and it has no members; and never is
\* more than one group open.
C13_BeginGroupEndsOpenGroup ==
    /\ [](Len(currentGroup) <= 1)
    /\ [][ last'.op = "beginGroup" =>
             /\ Len(currentGroup') = 1
             /\ currentGroup'[1].isGroup
             /\ currentGroup'[1].name \in GroupNames
             /\ IsEmpty(currentGroup'[1])
             /\ (currentGroup # <<>> /\ ~IsEmpty(currentGroup[1])) =>
                  /\ undoStack' # <<>>
                  /\ undoStack'[Len(undoStack')] = currentGroup[1]
                  /\ Len(undoStack') = Min(Len(undoStack) + 1, undoLimit)
                  /\ redoStack' = <<>>
             /\ (currentGroup # <<>> /\ IsEmpty(currentGroup[1])) =>
                  /\ undoStack' = undoStack
                  /\ redoStack' = redoStack
             /\ currentGroup # <<>> =>
                  /\ FirstEvent(events', "groupingChanged", "false") > 0
                  /\ FirstEvent(events', "groupingChanged", "false")
                       < FirstEvent(events', "groupingChanged", "true")
             /\ currentGroup = <<>> =>
                  /\ undoStack' = undoStack
                  /\ redoStack' = redoStack
         ]_vars

\* C13: beginGroup has ended an open group with members, pushing it onto an
\* undo stack that already held an entry.
C13_Witness ==
    /\ last.op = "beginGroup"
    /\ Emitted("historyChanged")
    /\ FirstEvent(events, "groupingChanged", "false") > 0
    /\ Len(undoStack) >= 2
    /\ undoStack[Len(undoStack)].isGroup
    /\ currentGroup # <<>>
    /\ IsEmpty(currentGroup[1])

\* C14: endGroup() with no group open leaves the undo stack, the redo stack and
\* the grouping state unchanged and emits no groupingChanged.
C14_EndGroupWithoutGroupIsNoOp ==
    [][ (last'.op = "endGroup" /\ currentGroup = <<>>) =>
          /\ undoStack' = undoStack
          /\ redoStack' = redoStack
          /\ currentGroup' = <<>>
          /\ \A i \in 1..Len(events') : events'[i].name # "groupingChanged"
      ]_vars

\* C14: endGroup() was called with no group open while both stacks held
\* entries.
C14_Witness ==
    /\ last.op = "endGroup"
    /\ last.outcome = "noop"
    /\ undoStack # <<>>
    /\ redoStack # <<>>

\* The signals about the history.
HistorySignals ==
    {"historyChanged", "undoAvailabilityChanged", "redoAvailabilityChanged"}

\* C15: undo() with an empty undo stack and redo() with an empty redo stack
\* leave both stacks unchanged and emit no historyChanged and no
\* availability-changed signal.
C15_NothingToUndoOrRedoIsNoOp ==
    [][ ( \/ (last'.op = "undo" /\ undoStack = <<>>)
          \/ (last'.op = "redo" /\ redoStack = <<>>) ) =>
          /\ undoStack' = undoStack
          /\ redoStack' = redoStack
          /\ \A i \in 1..Len(events') : events'[i].name \notin HistorySignals
      ]_vars

\* C15: redo() was called with an empty redo stack while the undo stack held
\* an entry.
C15_Witness ==
    /\ last.op = "redo"
    /\ last.outcome = "noop"
    /\ redoStack = <<>>
    /\ undoStack # <<>>

\* The lower-cased first token of a line that has one.
FirstToken(line) == ToLower(ParseCommandLine(line)[1])

\* C16 as stated: when the line "undo" was submitted while the undo stack was
\* empty, executeCommand returned false and the stacks are as they were.
C16_UndoLineOnEmptyHistoryReturnsFalse ==
    ( /\ sub.line = KwUndo
      /\ sub.route = "undo"
      /\ last.op = "undo"
      /\ last.undoLen = 0 ) =>
        /\ ret = "false"
        /\ undoStack = <<>>
        /\ Len(redoStack) = last.redoLen

\* C17 as stated: when "LINE" was submitted with no group open, "line" being
\* registered with a factory that succeeds, and the command (an undoable one)
\* executed successfully, the factory registered as "line" was invoked with no
\* arguments, executeCommand returned true and the undo stack has one entry
\* more.
C17_UpperCaseLineDispatched ==
    ( /\ sub.line = << "L", "I", "N", "E" >>
      /\ sub.route = "execute"
      /\ last.op = "execute"
      /\ last.outcome # "failed"
      /\ last.undoable
      /\ currentGroup = <<>> ) =>
        /\ sub.name = NmLine
        /\ sub.args = <<>>
        /\ ret = "true"
        /\ Len(undoStack) = last.undoLen + 1

\* C18 as stated: a submitted line with a first token invokes undo() exactly
\* when that token, lower-cased, is "u" or "undo", redo() exactly when it is
\* "redo", and repeatLastCommand() exactly when it is "repeat", whatever the
\* alias table and the registry hold.
C18_ReservedNamesBeforeAliases ==
    sub.route \notin {"none", "blank", "notokens"} =>
        /\ sub.route = "undo" <=> FirstToken(sub.line) \in {KwU, KwUndo}
        /\ sub.route = "redo" <=> FirstToken(sub.line) = KwRedo
        /\ sub.route = "repeat" <=> FirstToken(sub.line) = KwRepeat

\* The line is empty or holds only whitespace.
AllWhitespace(line) == \A i \in 1..Len(line) : line[i] \in {" ", "\t", "\n"}

\* C19: executeCommand of an empty or whitespace-only line returns false,
\* emits no commandFailed, appends nothing to the recording buffer, and leaves
\* the undo stack, the redo stack, the open group and the last command as they
\* were.
C19_BlankLineIsRejected ==
    [][ (submits' = submits + 1 /\ AllWhitespace(sub'.line)) =>
          /\ ret' = "false"
          /\ \A i \in 1..Len(events') : events'[i].name # "commandFailed"
          /\ sub'.echo = <<>>
          /\ recordedCommands' = recordedCommands
          /\ undoStack' = undoStack
          /\ redoStack' = redoStack
          /\ currentGroup' = currentGroup
          /\ lastCommand' = lastCommand
      ]_vars

\* C19: a whitespace-only line was submitted while a recording with a recorded
\* line was active, a group was open, the undo stack held an entry and a last
\* command was stored.
C19_Witness ==
    /\ sub.route = "blank"
    /\ sub.line # <<>>
    /\ recording
    /\ recordedCommands # <<>>
    /\ currentGroup # <<>>
    /\ undoStack # <<>>
    /\ lastCommand # <<>>

\* C20: while a recording is active, executeCommand of a line that is not
\* blank appends exactly that line, as given, to the end of the recording
\* buffer; when the line leads to repeatLastCommand with a stored last command,
\* the nested executeCommand of that last command appends it after the line;
\* nothing else is appended, whatever becomes of the command.
C20_RecordedVerbatimOnce ==
    [][ (submits' = submits + 1 /\ recording /\ ~AllWhitespace(sub'.line)) =>
          /\ recording'
          /\ recordedCommands' =
               IF sub'.nested
               THEN recordedCommands \o << sub'.line, lastCommand >>
               ELSE Append(recordedCommands, sub'.line)
      ]_vars

\* C20: with one line already recorded, a line with leading whitespace, an
\* alias and a quoted argument was submitted and recorded, and its command
\* failed to execute.
C20_Witness ==
    /\ recording
    /\ Len(recordedCommands) = 2
    /\ sub.line = << " ", "l", " ", "\"", "a", " ", "b", "\"" >>
    /\ recordedCommands[2] = sub.line
    /\ last.op = "execute"
    /\ last.outcome = "failed"

\* C21: after a successful top-level execute reached through
\* executeCommand(line), the stored last command is that raw line, arguments
\* included; a submission that fails, names no registered command, or names
\* undo, redo or repeat leaves the stored last command as it was.
C21_LastCommandIsRawLine ==
    [][ (submits' = submits + 1 /\ ~sub'.nested) =>
          /\ (sub'.route = "execute" /\ last'.outcome # "failed"
                 /\ currentGroup = <<>>)
               => lastCommand' = sub'.line
          /\ (\/ sub'.route \in {"unknown", "undo", "redo", "repeat"}
              \/ sub'.route = "execute" /\ last'.outcome = "failed")
               => lastCommand' = lastCommand ]_vars

\* C22: "repeat" submitted before any command has been executed successfully
\* is a no-op: nothing is executed and nothing is reported as failed, and the
\* stacks, the open group and the stored last command are as they were.
C22_RepeatWithNothingToRepeatIsNoOp ==
    [][ (submits' = submits + 1 /\ sub'.line = KwRepeat /\ nextId = 1) =>
          /\ calls' = <<>> /\ events' = <<>>
          /\ nextId' = nextId
          /\ undoStack' = undoStack /\ redoStack' = redoStack
          /\ currentGroup' = currentGroup
          /\ lastCommand' = lastCommand /\ lastCommand = <<>> ]_vars

\* "repeat" was submitted with a group open and nothing to repeat.
C22_Witness ==
    /\ sub.line = KwRepeat /\ sub.route = "repeat"
    /\ last.op = "submit" /\ last.outcome = "norepeat"
    /\ nextId = 1
    /\ currentGroup # <<>>

\* C23: executeCommand(line) returns to its caller, and what it reports when
\* the factory raised differs from what it reports for a name that is not in
\* the registry, which is "Unknown command".
C23_ConstructionFailureIsDistinguished ==
    /\ (sub.route # "none" /\ ~crashed) => ret \in {"true", "false"}
    /\ (sub.found = "absent" /\ ~sub.nested) =>
         /\ events # <<>>
         /\ events[1].name = "commandFailed"
         /\ events[1].error = "Unknown command"
    /\ (sub.found = "throws" /\ ~sub.nested) =>
         /\ events # <<>>
         /\ events[1].name = "commandFailed"
         /\ events[1].error # "Unknown command"

\* The lower-case form of each name given to resolveAlias, written out.
LowerCaseOf(nm) ==
    CASE nm = << "L" >> -> << "l" >>
      [] nm = << "l" >> -> << "l" >>
      [] nm = << "A" >> -> << "a" >>
      [] nm = << "a" >> -> << "a" >>
      [] nm = << "b" >> -> << "b" >>
      [] nm = << "C" >> -> << "c" >>
      [] nm = << "F", "o", "O" >> -> << "f", "o", "o" >>
      [] nm = << "L", "i", "n", "e" >> -> << "l", "i", "n", "e" >>

\* C24: alias resolution is case-insensitive and total: while l is registered
\* as an alias of line (by registerAlias("l", "line") or in any other case),
\* resolving "L" or "l" gives "line"; resolving a name that is not a
\* registered alias gives that name in lower case.
C24_ResolveIsCaseInsensitiveAndTotal ==
    probe.fn = "resolveAlias" =>
      /\ (probe.input \in { << "L" >>, << "l" >> } /\ << "l" >> \in DOMAIN aliases)
           => probe.output = << "l", "i", "n", "e" >>
      /\ LowerCaseOf(probe.input) \notin DOMAIN aliases
           => probe.output = LowerCaseOf(probe.input)

\* "L" was resolved to "line" on a table that also holds the alias a.
C24_Witness ==
    /\ probe.fn = "resolveAlias"
    /\ probe.input = << "L" >>
    /\ probe.output = << "l", "i", "n", "e" >>
    /\ << "a" >> \in DOMAIN aliases

\* C25: resolution follows one hop only: when the resolved name is an alias
\* whose target is itself an alias, the result is the first target, so
\* resolution also ends on a table where a and b name each other.
C25_ResolveIsSingleHop ==
    ( /\ probe.fn = "resolveAlias"
      /\ LowerCaseOf(probe.input) \in DOMAIN aliases
      /\ aliases[LowerCaseOf(probe.input)] \in DOMAIN aliases )
    => probe.output = aliases[LowerCaseOf(probe.input)]

\* "A" was resolved to "b" on the table where a names b and b names a.
C25_Witness ==
    /\ probe.fn = "resolveAlias"
    /\ probe.input = << "A" >>
    /\ probe.output = << "b" >>
    /\ << "a" >> \in DOMAIN aliases /\ aliases[<< "a" >>] = << "b" >>
    /\ << "b" >> \in DOMAIN aliases /\ aliases[<< "b" >>] = << "a" >>

NmX == << "x" >>
NmGo == << "g", "o" >>

\* C26: aliases are bound late.  Registering x as an alias of go succeeds
\* while go is not registered; "x" submitted then reports an unknown command;
\* once go is registered, before or after the alias, "x" submitted goes to the
\* factory registered as go.
C26_AliasesAreLateBound ==
    /\ [][ (aliases' # aliases /\ NmGo \notin DOMAIN commands) =>
              (NmX \in DOMAIN aliases' /\ aliases'[NmX] = NmGo) ]_vars
    /\ [][ ( /\ submits' = submits + 1
             /\ sub'.line = NmX
             /\ NmX \in DOMAIN aliases /\ aliases[NmX] = NmGo ) =>
              IF NmGo \in DOMAIN commands
              THEN /\ sub'.route = "execute"
                   /\ sub'.found = "ok"
                   /\ sub'.name = NmGo
                   /\ sub'.made = NmGo
              ELSE /\ sub'.route = "unknown"
                   /\ ret' = "false"
                   /\ events' = << [name |-> "commandFailed", arg |-> NmX,
                                    error |-> "Unknown command"] >>
                   /\ calls' = <<>> ]_vars

\* "x" went to the factory registered as go, x itself not being a command.
C26_Witness ==
    /\ sub.line = NmX /\ sub.route = "execute" /\ sub.made = NmGo
    /\ NmX \notin DOMAIN commands
    /\ NmGo \in DOMAIN commands

\* C27: when x is registered as a command and also as an alias of go, and go
\* is registered, "x" submitted builds and executes the command of go's
\* factory, not of x's.
C27_AliasWinsOverCommand ==
    [][ ( /\ submits' = submits + 1
         /\ sub'.line = NmX
         /\ NmX \in DOMAIN commands
         /\ NmGo \in DOMAIN commands
         /\ NmX \in DOMAIN aliases /\ aliases[NmX] = NmGo ) =>
          /\ sub'.made = NmGo
          /\ Len(calls') = 1 /\ calls'[1].op = "execute"
          /\ last'.outcome = "failed" => events'[1].arg = NmGo
          /\ (last'.outcome # "failed" /\ last'.undoable) =>
                StackTop(undoStack').name = NmGo ]_vars

\* "x", registered as a command and as an alias of go, was submitted and the
\* command on top of the undo stack is one of go's factory.
C27_Witness ==
    /\ sub.line = NmX /\ sub.route = "execute"
    /\ NmX \in DOMAIN commands /\ NmGo \in DOMAIN commands
    /\ NmX \in DOMAIN aliases /\ aliases[NmX] = NmGo
    /\ undoStack # <<>> /\ StackTop(undoStack).name = NmGo

\* The reference splitter.  A character is quoted when an odd number of
\* double quotes precedes it; a separator is an unquoted whitespace character;
\* the line is cut at its separators and at both ends, each piece loses its
\* double quotes, and the pieces that are not empty are the tokens, in order.
RefSpaces == { " ", "\t", "\n" }

RefQuoted(s, i) == Cardinality({ j \in 1..(i - 1) : s[j] = "\"" }) % 2 = 1

RefSeparator(s, i) == s[i] \in RefSpaces /\ ~RefQuoted(s, i)

RefCuts(s) == {0, Len(s) + 1} \cup { i \in 1..Len(s) : RefSeparator(s, i) }

RefCut(s, k) ==
    CHOOSE c \in RefCuts(s) : Cardinality({ d \in RefCuts(s) : d < c }) = k - 1

RefNotQuote(c) == c # "\""

RefNotEmpty(t) == t # <<>>

RefSplit(s) ==
    LET pieces == [ k \in 1..(Cardinality(RefCuts(s)) - 1) |->
                      SelectSeq(SubSeq(s, RefCut(s, k) + 1, RefCut(s, k + 1) - 1),
                                RefNotQuote) ]
    IN SelectSeq(pieces, RefNotEmpty)

\* C28: parseCommandLine gives what the reference splitter gives on every
\* line; in particular foo "bar baz" qux gives [foo, bar baz, qux], an
\* unclosed quote takes the rest of the line, and the empty line, a line of
\* whitespace and the line "" give no tokens.
C28_TokenizerEqualsReference ==
    probe.fn = "parseCommandLine" =>
      /\ probe.output = RefSplit(probe.input)
      /\ probe.input = LineFooBarBazQux =>
            probe.output = << << "f", "o", "o" >>,
                              << "b", "a", "r", " ", "b", "a", "z" >>,
                              << "q", "u", "x" >> >>
      /\ probe.input = LineUnterminated =>
            probe.output = << << "a" >>, << "b", " ", "c" >> >>
      /\ (\/ \A i \in 1..Len(probe.input) : probe.input[i] \in RefSpaces
          \/ probe.input = << "\"", "\"" >>) => probe.output = <<>>

\* A line with whitespace inside quotes was split into one token.
C28_Witness ==
    /\ probe.fn = "parseCommandLine"
    /\ probe.input = << "\"", "a", " ", "\"" >>
    /\ probe.output = << << "a", " " >> >>

\* The macros after the recording in progress was stored: its buffer is under
\* its name and every other macro is as it was.
BufferStored ==
    /\ DOMAIN macros' = DOMAIN macros \cup {currentMacroName}
    /\ macros'[currentMacroName] = recordedCommands
    /\ \A k \in DOMAIN macros : k # currentMacroName => macros'[k] = macros[k]

\* C29: startRecording(name) during a recording (the step that is not a
\* submission and is between two states that record) stores the buffer under
\* the previous name when it is not empty, stores nothing otherwise, and
\* leaves a recording under name whose buffer is empty, so that no line of the
\* previous macro is in the new one.
C29_StartRecordingEndsActiveRecording ==
    [][ (submits' = submits /\ recording /\ recording') =>
          /\ IF recordedCommands # <<>> THEN BufferStored ELSE macros' = macros
          /\ currentMacroName' \in NextMacroNames
          /\ recordedCommands' = <<>> ]_vars

\* A recording under n with an empty buffer follows one under m that was
\* stored.
C29_Witness ==
    /\ recording /\ currentMacroName = "n" /\ recordedCommands = <<>>
    /\ "m" \in DOMAIN macros /\ macros["m"] # <<>>
    /\ "n" \notin DOMAIN macros

\* C30: stopRecording() during a recording stores the buffer under the macro
\* name when it is not empty and leaves the macros as they were when it is
\* empty; afterwards nothing is being recorded and the buffer and the
\* current macro name are empty.  stopRecording() outside a recording (a
\* step that is not a submission and is between two states that do not
\* record) changes nothing.
C30_StopRecordingStoresNonEmptyBuffer ==
    /\ [][ (recording /\ ~recording') =>
              /\ IF recordedCommands # <<>> THEN BufferStored
                 ELSE macros' = macros
              /\ recordedCommands' = <<>>
              /\ currentMacroName' = "" ]_vars
    /\ [][ (submits' = submits /\ ~recording /\ ~recording') =>
              UNCHANGED vars ]_vars

\* Nothing is being recorded and a macro of two lines is stored under m.
C30_Witness ==
    /\ ~recording /\ currentMacroName = "" /\ recordedCommands = <<>>
    /\ "m" \in DOMAIN macros /\ Len(macros["m"]) = 2
    /\ submits = 2

C35_GroupRedoInExecutionOrder ==
    [][ ( /\ grun.phase = "undone" /\ grun.ids # <<>>
         /\ last.op = "undo" /\ last.outcome = "ok"
         /\ last'.op = "redo" /\ last'.outcome = "ok" ) =>
          /\ calls' = [ i \in 1..Len(grun.ids) |->
                          [op |-> "execute", id |-> grun.ids[i], ok |-> TRUE] ]
          /\ tracking => doc' = doc \o grun.ids
          /\ StackTop(undoStack') = StackTop(redoStack) ]_vars

\* A group of two members was undone and redone and the document holds their
\* effects in execution order.
C35_Witness ==
    /\ last.op = "redo" /\ last.outcome = "ok"
    /\ undoStack # <<>>
    /\ StackTop(undoStack).isGroup
    /\ Len(StackTop(undoStack).commands) = 2
    /\ doc = << StackTop(undoStack).commands[1].id,
                StackTop(undoStack).commands[2].id >>
    /\ calls = << [op |-> "execute", id |-> doc[1], ok |-> TRUE],
                  [op |-> "execute", id |-> doc[2], ok |-> TRUE] >>

\* The identities of the members of the open group.
OpenMembers ==
    IF currentGroup = <<>> THEN {}
    ELSE { currentGroup[1].commands[i].id : i \in 1..Len(currentGroup[1].commands) }

\* C36: an undo() or a redo() made while a group is open leaves the open
\* group and its members as they were and calls no member of it; what an
\* undo() then reverts is the top of the undo stack, whose commands were all
\* executed before every member of the open group.
C36_OpenGroupUntouchedByUndoRedo ==
    [][ (last'.op \in {"undo", "redo"} /\ currentGroup # <<>>) =>
          /\ currentGroup' = currentGroup
          /\ \A i \in 1..Len(calls') : calls'[i].id \notin OpenMembers
          /\ (last'.op = "undo" /\ last'.outcome # "noop") =>
                /\ undoStack # <<>>
                /\ calls'[1].id = UndoOrder(StackTop(undoStack))[1].id
                /\ \A i \in 1..Len(calls') : \A m \in OpenMembers :
                      calls'[i].id < m ]_vars

\* An undo() succeeded while a group with a member was open.
C36_Witness ==
    /\ last.op = "undo" /\ last.outcome = "ok"
    /\ currentGroup # <<>> /\ currentGroup[1].commands # <<>>
    /\ redoStack # <<>>

\* C37: a successful execute, with no group open, of a command whose
\* canUndo() is false leaves the redo stack (and the undo stack) as it was,
\* and a redo() made right after it re-applies the entry on top of the redo
\* stack.
C37_NonUndoableKeepsRedoStack ==
    /\ [][ ( /\ last'.op = "execute" /\ last'.outcome # "failed"
             /\ ~last'.undoable
             /\ currentGroup = <<>> ) =>
              /\ redoStack' = redoStack
              /\ undoStack' = undoStack ]_vars
    /\ [][ ( /\ last.op = "execute" /\ last.outcome = "ok"
             /\ ~last.undoable
             /\ currentGroup = <<>>
             /\ last.redoLen > 0
             /\ last'.op = "redo" ) =>
              /\ redoStack # <<>>
              /\ last'.outcome # "noop"
              /\ calls' # <<>>
              /\ calls'[1].op = "execute"
              /\ calls'[1].id = RedoOrder(StackTop(redoStack))[1].id ]_vars

\* A command that cannot be undone was executed with no group open while
\* the redo stack held an entry, and the entry is still there.
C37_Witness ==
    /\ last.op = "execute" /\ last.outcome = "ok" /\ ~last.undoable
    /\ currentGroup = <<>>
    /\ last.redoLen > 0
    /\ Len(redoStack) = last.redoLen

\* C39: when the undo() of a group fails at its k-th call (the members being
\* called last to first), the k - 1 members called before stay undone and
\* the others stay applied: a document that ended with the members' effects
\* has lost the last k - 1 of them; the group is back on top of the undo
\* stack with all its members, and the next undo() calls its last member
\* first again.
C39_FailedGroupUndoIsNotRolledBack ==
    /\ [][ ( /\ last'.op = "undo" /\ last'.outcome = "failed"
             /\ undoStack # <<>> /\ StackTop(undoStack).isGroup ) =>
              LET members == StackTop(undoStack).commands
                  n == Len(members)
                  k == Len(calls')
                  ids == [ i \in 1..n |-> members[i].id ]
              IN /\ k \in 1..n
                 /\ \A i \in 1..k :
                      /\ calls'[i].id = members[n + 1 - i].id
                      /\ calls'[i].ok = (i < k)
                 /\ undoStack' = undoStack
                 /\ ( /\ tracking
                      /\ Len(doc) >= n
                      /\ SubSeq(doc, Len(doc) - n + 1, Len(doc)) = ids ) =>
                       doc' = SubSeq(doc, 1, Len(doc) - (k - 1)) ]_vars
    /\ [][ ( /\ last.op = "undo" /\ last.outcome = "failed"
             /\ undoStack # <<>> /\ StackTop(undoStack).isGroup
             /\ last'.op = "undo" ) =>
              LET members == StackTop(undoStack).commands
              IN /\ calls' # <<>>
                 /\ calls'[1].id = members[Len(members)].id ]_vars

\* The undo() of a group of two failed at its second call: the member
\* executed last is undone, the other is applied, the group is on the stack.
C39_Witness ==
    /\ last.op = "undo" /\ last.outcome = "failed"
    /\ undoStack # <<>> /\ StackTop(undoStack).isGroup
    /\ Len(StackTop(undoStack).commands) = 2
    /\ Len(calls) = 2
    /\ doc = << StackTop(undoStack).commands[1].id >>

\* C40 as stated: no executeCommand(line) recurses without bound, because
\* the stored last command is never a line that leads to repeatLastCommand
\* again.
C40_RepeatNestsAtMostOnce ==
    /\ ~(last.op = "submit" /\ last.outcome = "crashed")
    /\ lastCommand # <<>> => RouteOf(aliases, lastCommand).route # "repeat"

\* The characters of a line that are not white space, in order
Inked(line) == SelectSeq(line, LAMBDA ch : ch \notin {" ", "\t"})

\* A script line that holds white space only, or whose first character that
\* is not white space is ';' or '#'
BlankOrComment(line) ==
    \/ Inked(line) = <<>>
    \/ Inked(line)[1] \in {";", "#"}

\* C33: executeScriptText never submits a line that, after trimming, is empty
\* or begins with ';' or '#': no line it has given to executeCommand is such a
\* line, and the turn of its loop that meets such a line records nothing,
\* executes nothing, emits nothing and leaves the flag it will return as it
\* was.
C33_ScriptSkipsBlankAndCommentLines ==
    [][/\ \A i \in DOMAIN task'.sent : ~BlankOrComment(task'.sent[i])
       /\ (/\ task.kind = "script"
           /\ task.lines # <<>>
           /\ BlankOrComment(Head(task.lines)))
          => /\ task'.sent = task.sent
             /\ task'.failed = task.failed
             /\ task'.success = task.success
             /\ UNCHANGED <<recordedCommands, undoStack, redoStack,
                            currentGroup, lastCommand, nextId, events, calls,
                            ret, sub, crashed>>]_vars

\* A script of six lines has returned while a recording was active: its two
\* lines that are neither blank nor comments were submitted and recorded, and
\* its four other lines were not.
C33_Witness ==
    /\ task.was = "script"
    /\ task.sent = << <<"y">>, <<"x">> >>
    /\ recording
    /\ recordedCommands = << <<"y">>, <<"x">> >>

\* C32: executeScriptText is best-effort: it goes on to every following line
\* whatever a line did, so it is never stopped with lines left, it adds at most
\* its one group to the undo stack, and the flag it returns is false exactly
\* when a line it submitted failed.
C32_ScriptIsBestEffort ==
    /\ task.kind = "script" => ~crashed
    /\ task.was = "script"
       => /\ (ret = "false") <=> (task.failed # <<>>)
          /\ Len(task.closed) <= Len(task.opened) + 1

\* C31: playMacro of a macro held in memory submits the recorded lines in the
\* recorded order inside one group: the replay is never stopped with lines
\* left, and when it has returned the lines it submitted are the lines of the
\* macro and the commands they executed are one entry on top of the undo stack,
\* the group named for the macro.
C31_MacroReplayIsOneUndoEntry ==
    /\ task.kind = "macro" => ~crashed
    /\ task.was = "macro"
       => /\ task.sent = macros["m"]
          /\ Len(task.closed) <= Len(task.opened) + 1
          /\ Len(task.closed) = Len(task.opened) + 1
             => StackTop(task.closed).name = MacroGroupName("m")

\* The name of the group executeScriptText or playMacro opens
TaskGroupName(kind) ==
    IF kind = "script" THEN ScriptGroupName ELSE MacroGroupName("m")

\* C38: executeScriptText and playMacro of a macro held in memory, when they
\* return, leave no group open.  At their start a group the caller had open is
\* ended: with members it becomes the top entry of the undo stack, without
\* members it is dropped, and the group then open is a new one without
\* members, named for the script or the macro.  At their end the group that is
\* open is still that one, and it becomes the top entry if it has members.  A
\* command with canUndo() executed successfully right after the return is an
\* entry of its own on top of the undo stack.
C38_ScriptAndMacroLeaveNoGroupOpen ==
    /\ [][ (task.kind = "none" /\ task'.kind \in {"script", "macro"}) =>
             /\ currentGroup' = << NewGroup(TaskGroupName(task'.kind)) >>
             /\ (currentGroup # <<>> /\ ~IsEmpty(currentGroup[1])) =>
                  /\ undoStack' # <<>>
                  /\ StackTop(undoStack') = currentGroup[1]
                  /\ Len(undoStack') = Min(Len(undoStack) + 1, undoLimit)
             /\ (currentGroup = <<>> \/ IsEmpty(currentGroup[1])) =>
                  undoStack' = undoStack ]_vars
    /\ [][ (task.kind \in {"script", "macro"} /\ task'.kind = "none") =>
             /\ currentGroup' = <<>>
             /\ currentGroup # <<>>
             /\ currentGroup[1].name = TaskGroupName(task.kind)
             /\ IsEmpty(currentGroup[1]) => undoStack' = undoStack
             /\ ~IsEmpty(currentGroup[1]) =>
                  /\ StackTop(undoStack') = currentGroup[1]
                  /\ Len(undoStack') = Min(Len(undoStack) + 1, undoLimit) ]_vars
    /\ [][ ( /\ task.kind = "none" /\ task.was \in {"script", "macro"}
             /\ last'.op = "execute" /\ last'.outcome = "ok"
             /\ last'.undoable ) =>
              /\ currentGroup' = <<>>
              /\ undoStack' # <<>>
              /\ ~StackTop(undoStack').isGroup
              /\ Len(undoStack') = Min(Len(undoStack) + 1, undoLimit) ]_vars

\* A script has returned that was started while the caller's group had a
\* member: that group and the script's group are two entries of the undo
\* stack, the script's on top, and no group is open.
C38_Witness ==
    /\ task.was = "script"
    /\ currentGroup = <<>>
    /\ Len(undoStack) >= 2
    /\ StackTop(undoStack).isGroup
    /\ StackTop(undoStack).name = ScriptGroupName
    /\ ~IsEmpty(StackTop(undoStack))
    /\ StackTop(StackPop(undoStack)).isGroup
    /\ StackTop(StackPop(undoStack)).name \in GroupNames
    /\ ~IsEmpty(StackTop(StackPop(undoStack)))

====
